---- MODULE Spec2Model ----
(***************************************************************************)
(* Model of the enum store (searchlib/attribute/enumstorebase.cpp) and of  *)
(* the unique-value store it is built on: a buffer arena with generation-  *)
(* held reclamation, a deduplicating dictionary, compaction and the        *)
(* buffer sizing policy of EnumBufferType::calcArraysToAlloc.              *)
(***************************************************************************)
EXTENDS Integers, Sequences, FiniteSets, TLC

(* ------------------------------------------------------------------ *)
(* Program constants.                                                   *)
(* ------------------------------------------------------------------ *)

\* BufferType<char>(Index::align(1), ...): the array size of the enum
\* buffer type is one alignment unit of the entry ref.
ArraySize ==
    16

\* BufferType<char>(..., Index::offsetSize() / Index::align(1)): the largest
\* number of arrays one buffer may hold.  The entry ref's offset width is
\* scaled down so that MaxArrays * ArraySize stays far inside TLC's integers
\* and still leaves room for sizes the second sizing attempt accepts.
MaxArrays ==
    262144

\* The slack added by the second ("just enough") sizing attempt.
Slack ==
    1000000

\* Index::numBuffers(): the number of buffer slots of the data store.
NumBuffers ==
    2

(* ------------------------------------------------------------------ *)
(* Bounds of the model.                                                 *)
(* ------------------------------------------------------------------ *)

\* Number of distinct values the writer may store.
NumValues ==
    2

\* Largest reference count a value is driven to.
MaxRefCount ==
    2

\* Largest generation the generation handler is driven to.
MaxGen ==
    1

\* Number of entries, beyond the reserved ones, a buffer is filled to.
MaxEntries ==
    2

\* Number of compactions the writer starts.
MaxCompactions ==
    2

\* Number of concurrent readers.
NumReaders ==
    1

\* Number of key pairs the key tool generates.
MaxKeyPairs ==
    2

Values ==
    1..NumValues

Readers ==
    1..NumReaders

BufferIds ==
    0..(NumBuffers - 1)

\* Every stored entry occupies one aligned array of the buffer.
EntrySize ==
    ArraySize

\* Sizes, in elements, the caller passes as bytesNeeded: one entry, a size
\* only the second sizing attempt can satisfy, and a size beyond the maximum
\* buffer size.
SizesNeeded ==
    {EntrySize, 3000000, MaxArrays * ArraySize}

\* Sizes the constructor is given as initBufferSize.
InitBufferSizes ==
    {EntrySize, 2 * EntrySize}

(* ------------------------------------------------------------------ *)
(* Pure functions.                                                      *)
(* ------------------------------------------------------------------ *)

Max(a, b) ==
    IF a >= b THEN a ELSE b

\* EnumBufferType::alignBufferSize -> Index::align: round up to the
\* alignment unit.
alignBufferSize(val) ==
    ((val + ArraySize - 1) \div ArraySize) * ArraySize

\* BufferTypeBase::getReservedElements: the first array of buffer 0 is
\* reserved so that the null ref never names an entry.
getReservedElements(bufferId) ==
    IF bufferId = 0 THEN ArraySize ELSE 0

\* The growth left out: the size is kept as it is.
growByRatioNone(newSize) ==
    newSize

\* newSize *= growRatio with growRatio = 1.5f: the product is computed in
\* double and truncated back to uint64_t.
growByRatio(newSize) ==
    (newSize * 3) \div 2

\* EnumStoreBase::failNewSize: throws IllegalStateException; the call does
\* not return, so no size is produced.
failNewSizeSilently(minNewSize, maxSize) ==
    [thrown |-> FALSE, arrays |-> 0]

failNewSize(minNewSize, maxSize) ==
    [thrown |-> TRUE, minNewSize |-> minNewSize, maxSize |-> maxSize]

\* The first attempt with the growth applied to an empty store as well.
firstNewSizeAlwaysGrows(bufferId, sizeNeeded, usedElems, deadElems) ==
    alignBufferSize(growByRatio(usedElems - deadElems + sizeNeeded)
                    + getReservedElements(bufferId))

\* The size of the first attempt: grow the live size by growRatio unless
\* the store is empty.
firstNewSize(bufferId, sizeNeeded, usedElems, deadElems) ==
    alignBufferSize((IF usedElems # 0
                     THEN growByRatio(usedElems - deadElems + sizeNeeded)
                     ELSE usedElems - deadElems + sizeNeeded)
                    + getReservedElements(bufferId))

\* The size of the second attempt: just enough plus slack.
secondNewSize(bufferId, sizeNeeded, usedElems, deadElems) ==
    alignBufferSize(usedElems - deadElems + sizeNeeded
                    + getReservedElements(bufferId) + Slack)

\* calcArraysToAlloc without the comparison against the maximum size.
calcArraysUnlimited(bufferId, sizeNeededArg, minSizeNeeded, usedElems, deadElems) ==
    [thrown |-> FALSE,
     arrays |-> firstNewSize(bufferId, Max(sizeNeededArg, minSizeNeeded),
                             usedElems, deadElems) \div ArraySize]

\* calcArraysToAlloc that fails as soon as the first size exceeds the
\* maximum.
calcArraysNoRetry(bufferId, sizeNeededArg, minSizeNeeded, usedElems, deadElems) ==
    LET sizeNeeded == Max(sizeNeededArg, minSizeNeeded)
        newSize1 == firstNewSize(bufferId, sizeNeeded, usedElems, deadElems)
    IN  IF newSize1 <= MaxArrays * ArraySize
        THEN [thrown |-> FALSE, arrays |-> newSize1 \div ArraySize]
        ELSE failNewSize(newSize1, MaxArrays * ArraySize)

\* EnumBufferType::calcArraysToAlloc with the fields it reads made explicit:
\* minSizeNeeded is _minSizeNeeded, usedElems is _activeUsedElems plus
\* *_lastUsedElems, deadElems is _deadElems.
calcArrays(bufferId, sizeNeededArg, minSizeNeeded, usedElems, deadElems) ==
    LET sizeNeeded == Max(sizeNeededArg, minSizeNeeded)
        maxSize == MaxArrays * ArraySize
        newSize1 == firstNewSize(bufferId, sizeNeeded, usedElems, deadElems)
        newSize2 == secondNewSize(bufferId, sizeNeeded, usedElems, deadElems)
    IN  IF newSize1 <= maxSize
        THEN [thrown |-> FALSE, arrays |-> newSize1 \div ArraySize]
        ELSE IF newSize2 <= maxSize
             THEN [thrown |-> FALSE, arrays |-> MaxArrays]
             ELSE failNewSize(newSize2, maxSize)

(* ------------------------------------------------------------------ *)
(* State.                                                               *)
(* ------------------------------------------------------------------ *)

VARIABLES
    states,               \* _store: per buffer, state and element accounting
    activeBufferId,       \* _store: active buffer of TYPE_ID
    entries,              \* buffer memory: ref -> [value, refCount]
    elemHoldList,         \* _store: entries on hold, [ref, gen]
    bufferHoldList,       \* _store: buffers and old allocations on hold
    type,                 \* _type: the EnumBufferType
    toHoldBuffers,        \* _toHoldBuffers
    dict,                 \* _enumDict: the refs held as keys, ordered by value
    dictHoldList,         \* _enumDict: retired dictionary nodes, [ref, gen]
    old2New,              \* the relocation map of the running compaction
    phase,                \* the writer's position in a compaction
    compactionCount,      \* _store: compactions started
    currentGeneration,    \* generation handler
    firstUsedGeneration,  \* generation handler
    readers,              \* registered readers and the ref each has obtained
    netAdds,              \* history: adds minus removes per value
    preCompactDict,       \* history: value -> [ref, refCount] at preCompact
    ret,                  \* what the call made by the last step returned
    calcIn,               \* input of a stand-alone calcArraysToAlloc call
    calcOut,              \* its result
    load,                 \* bulk load: serialized input, history, index vector
    tool                  \* a tool beside the store: its input and last output

vars ==
    << states, activeBufferId, entries, elemHoldList, bufferHoldList, type,
       toHoldBuffers, dict, dictHoldList, old2New, phase, compactionCount,
       currentGeneration, firstUsedGeneration, readers, netAdds,
       preCompactDict, ret, calcIn, calcOut, load, tool >>

storeVars ==
    << states, activeBufferId, entries, elemHoldList, bufferHoldList, type,
       toHoldBuffers, dict, dictHoldList, old2New, phase, compactionCount,
       netAdds, preCompactDict >>

genVars ==
    << currentGeneration, firstUsedGeneration >>

calcVars ==
    << calcIn, calcOut >>

toolVars ==
    << tool >>

\* A hold-list item that transferHoldLists has not tagged yet.
NoGen ==
    -1

\* EntryRef(): buffer 0, offset 0.
NullRef ==
    << 0, 0 >>

NoBuffer ==
    -1

FreeState ==
    [state |-> "FREE", allocElems |-> 0, usedElems |-> 0, deadElems |-> 0]

\* Function restricted to (or removed of) a set of arguments.
Without(f, S) ==
    [x \in (DOMAIN f) \ S |-> f[x]]

\* The used elements without those of the buffer activated last.
typeUsedElemsFlushedOnly(t, st) ==
    t.activeUsedElems

\* BufferTypeBase: the elements in use by the active buffers of the type,
\* _activeUsedElems plus *_lastUsedElems (lines 44-47).
typeUsedElems(t, st) ==
    t.activeUsedElems
        + (IF t.lastUsedElems # NoBuffer THEN st[t.lastUsedElems].usedElems ELSE 0)

\* calcArraysToAlloc as the store calls it, on the type's current fields.
calcArraysToAlloc(t, st, bufferId, sizeNeeded) ==
    calcArrays(bufferId, sizeNeeded, t.minSizeNeeded, typeUsedElems(t, st),
               t.deadElems)

\* EnumBufferType::setSizeNeededAndDead.
setSizeNeededAndDead(t, sizeNeeded, deadElems) ==
    [t EXCEPT !.minSizeNeeded = sizeNeeded, !.deadElems = deadElems]

\* A buffer activated without its reserved elements marked as used.
onActiveStateNothingUsed(bufferId, arrays) ==
    [state |-> "ACTIVE", allocElems |-> arrays * ArraySize,
     usedElems |-> 0, deadElems |-> 0]

\* BufferState::onActive with BufferTypeBase::onActive: the buffer gets its
\* memory, its reserved elements count as used and dead, and the type's
\* last-used pointer moves to it (the previous one is flushed into
\* _activeUsedElems).
onActiveState(bufferId, arrays) ==
    [state |-> "ACTIVE", allocElems |-> arrays * ArraySize,
     usedElems |-> getReservedElements(bufferId),
     deadElems |-> getReservedElements(bufferId)]

onActiveType(t, st, bufferId) ==
    [t EXCEPT !.activeUsedElems = typeUsedElems(t, st),
              !.lastUsedElems = bufferId]

\* getBufferIndex with a scan that starts one buffer too late.
getBufferIndexSkipsFirst(status) ==
    IF \E i \in BufferIds \ {0} : states[i].state = status
    THEN CHOOSE i \in BufferIds \ {0} :
            /\ states[i].state = status
            /\ \A j \in BufferIds \ {0} : states[j].state = status => i <= j
    ELSE NumBuffers

\* EnumStoreBase::getBufferIndex: the first buffer in the given state, or
\* Index::numBuffers() when there is none.
getBufferIndex(status) ==
    IF \E i \in BufferIds : states[i].state = status
    THEN CHOOSE i \in BufferIds :
            /\ states[i].state = status
            /\ \A j \in BufferIds : states[j].state = status => i <= j
    ELSE NumBuffers

\* getAddressSpaceUsage that reports no dead elements.
getAddressSpaceUsageIgnoresDead ==
    [used |-> states[activeBufferId].usedElems,
     dead |-> 0,
     limit |-> MaxArrays * ArraySize]

\* EnumStoreBase::getAddressSpaceUsage: the used and dead elements of the
\* active buffer and the offset range of a ref as the limit.
getAddressSpaceUsage ==
    [used |-> states[activeBufferId].usedElems,
     dead |-> states[activeBufferId].deadElems,
     limit |-> MaxArrays * ArraySize]

\* UniqueStore::get: the value stored at a ref.
get(ref) ==
    entries[ref].value

\* UniqueStore::find: the ref the dictionary holds for a value, or the null
\* ref.
find(value) ==
    IF \E r \in dict : get(r) = value
    THEN CHOOSE r \in dict : get(r) = value
    ELSE NullRef

NoRet ==
    [op |-> "none"]

\* No bulk load is under way.
NoLoad ==
    [state |-> "none"]

\* The key tool is not part of the run.
NoTool ==
    [state |-> "none"]

(* ------------------------------------------------------------------ *)
(* Construction.                                                        *)
(* ------------------------------------------------------------------ *)

\* EnumStoreBase::EnumStoreBase: the type gets initBufferSize as its
\* minimum size and initActiveBuffers activates buffer 0.
InitStore(initBufferSize) ==
    LET t0 == [minSizeNeeded |-> initBufferSize, deadElems |-> 0,
               pendingCompact |-> FALSE, wantCompact |-> FALSE,
               activeUsedElems |-> 0, lastUsedElems |-> NoBuffer]
        st0 == [b \in BufferIds |-> FreeState]
        r == calcArraysToAlloc(t0, st0, 0, 0)
    IN  /\ states = [st0 EXCEPT ![0] = onActiveState(0, r.arrays)]
        /\ activeBufferId = 0
        /\ entries = << >>
        /\ elemHoldList = {}
        /\ bufferHoldList = {}
        /\ type = onActiveType(t0, st0, 0)
        /\ toHoldBuffers = << >>
        /\ dict = {}
        /\ dictHoldList = {}
        /\ old2New = << >>
        /\ phase = "idle"
        /\ compactionCount = 0
        /\ netAdds = [v \in Values |-> 0]
        /\ preCompactDict = << >>

InitGen ==
    /\ currentGeneration = 0
    /\ firstUsedGeneration = 0
    /\ readers = [r \in Readers |->
                    [registered |-> FALSE, gen |-> 0, ref |-> NullRef, value |-> 0]]

Init ==
    /\ InitStore(2 * EntrySize)
    /\ InitGen
    /\ ret = NoRet
    /\ calcIn = [op |-> "none"]
    /\ calcOut = [op |-> "none"]
    /\ load = NoLoad
    /\ tool = NoTool

(* ------------------------------------------------------------------ *)
(* UniqueStore: add and remove.                                         *)
(* ------------------------------------------------------------------ *)

\* Memory with one more entry written at ref.
Store(mem, ref, entry) ==
    [x \in (DOMAIN mem) \cup {ref} |-> IF x = ref THEN entry ELSE mem[x]]

\* The active buffer has room for one more entry.  The caller checks the
\* remaining space before it adds and compacts or resizes when there is none.
HasRoom ==
    /\ states[activeBufferId].usedElems + EntrySize
          <= states[activeBufferId].allocElems
    /\ states[activeBufferId].usedElems + EntrySize
          <= getReservedElements(activeBufferId) + MaxEntries * EntrySize

\* UniqueStore::add: look the value up in the dictionary; when it is there
\* take one more reference to its entry, otherwise allocate an entry in the
\* active buffer, insert its ref into the dictionary and give it the first
\* reference.
AddAlwaysAllocates(value) ==
    LET ref == << activeBufferId, states[activeBufferId].usedElems >>
    IN  /\ phase = "idle"
        /\ HasRoom
        /\ netAdds[value] < MaxRefCount
        /\ entries' = Store(entries, ref, [value |-> value, refCount |-> 1])
        /\ states' = [states EXCEPT ![activeBufferId].usedElems = @ + EntrySize]
        /\ dict' = dict \cup {ref}
        /\ ret' = [op |-> "add", value |-> value, ref |-> ref, isNew |-> TRUE]
        /\ netAdds' = [netAdds EXCEPT ![value] = @ + 1]
        /\ UNCHANGED << activeBufferId, elemHoldList, bufferHoldList, type,
                        toHoldBuffers, dictHoldList, old2New, phase,
                        preCompactDict, compactionCount, genVars, readers, calcVars, toolVars, load >>

AddForgetsRefCount(value) ==
    LET found == find(value)
        ref == << activeBufferId, states[activeBufferId].usedElems >>
    IN  /\ phase = "idle"
        /\ netAdds[value] < MaxRefCount
        /\ IF found # NullRef
           THEN /\ ret' = [op |-> "add", value |-> value, ref |-> found,
                           isNew |-> FALSE]
                /\ UNCHANGED << entries, states, dict >>
           ELSE /\ HasRoom
                /\ entries' = Store(entries, ref, [value |-> value, refCount |-> 1])
                /\ states' = [states EXCEPT ![activeBufferId].usedElems = @ + EntrySize]
                /\ dict' = dict \cup {ref}
                /\ ret' = [op |-> "add", value |-> value, ref |-> ref,
                           isNew |-> TRUE]
        /\ netAdds' = [netAdds EXCEPT ![value] = @ + 1]
        /\ UNCHANGED << activeBufferId, elemHoldList, bufferHoldList, type,
                        toHoldBuffers, dictHoldList, old2New, phase,
                        preCompactDict, compactionCount, genVars, readers, calcVars, toolVars, load >>

Add(value) ==
    LET found == find(value)
        ref == << activeBufferId, states[activeBufferId].usedElems >>
    IN  /\ phase = "idle"
        /\ IF found # NullRef
           THEN /\ entries[found].refCount < MaxRefCount
                /\ entries' = [entries EXCEPT ![found].refCount = @ + 1]
                /\ ret' = [op |-> "add", value |-> value, ref |-> found,
                           isNew |-> FALSE]
                /\ UNCHANGED << states, dict >>
           ELSE /\ HasRoom
                /\ entries' = Store(entries, ref, [value |-> value, refCount |-> 1])
                /\ states' = [states EXCEPT ![activeBufferId].usedElems = @ + EntrySize]
                /\ dict' = dict \cup {ref}
                /\ ret' = [op |-> "add", value |-> value, ref |-> ref,
                           isNew |-> TRUE]
        /\ netAdds' = [netAdds EXCEPT ![value] = @ + 1]
        /\ UNCHANGED << activeBufferId, elemHoldList, bufferHoldList, type,
                        toHoldBuffers, dictHoldList, old2New, phase,
                        preCompactDict, compactionCount, genVars, readers, calcVars, toolVars, load >>

\* UniqueStore::remove: drop one reference; the last one removes the ref
\* from the dictionary, whose node goes on the dictionary's hold list, and
\* puts the entry on the store's hold list.  The caller passes the ref of an
\* entry it holds a reference to.
RemoveKeepsDictionaryEntry(ref) ==
    /\ phase = "idle"
    /\ ref \in dict
    /\ entries' = [entries EXCEPT ![ref].refCount = @ - 1]
    /\ IF entries[ref].refCount > 1
       THEN UNCHANGED << dict, dictHoldList, elemHoldList >>
       ELSE /\ elemHoldList' = elemHoldList \cup {[ref |-> ref, gen |-> NoGen]}
            /\ UNCHANGED << dict, dictHoldList >>
    /\ netAdds' = [netAdds EXCEPT ![get(ref)] = @ - 1]
    /\ ret' = NoRet
    /\ UNCHANGED << states, activeBufferId, bufferHoldList, type, toHoldBuffers,
                    old2New, phase, preCompactDict, compactionCount, genVars, readers, calcVars, toolVars, load >>

Remove(ref) ==
    /\ phase = "idle"
    /\ ref \in dict
    /\ entries' = [entries EXCEPT ![ref].refCount = @ - 1]
    /\ IF entries[ref].refCount > 1
       THEN UNCHANGED << dict, dictHoldList, elemHoldList >>
       ELSE /\ dict' = dict \ {ref}
            /\ dictHoldList' = dictHoldList \cup {[ref |-> ref, gen |-> NoGen]}
            /\ elemHoldList' = elemHoldList \cup {[ref |-> ref, gen |-> NoGen]}
    /\ netAdds' = [netAdds EXCEPT ![get(ref)] = @ - 1]
    /\ ret' = NoRet
    /\ UNCHANGED << states, activeBufferId, bufferHoldList, type, toHoldBuffers,
                    old2New, phase, preCompactDict, compactionCount, genVars, readers, calcVars, toolVars, load >>

(* ------------------------------------------------------------------ *)
(* Hold lists.                                                          *)
(* ------------------------------------------------------------------ *)

\* Tag every item held since the last transfer with the generation.
tagged(holdList, generation) ==
    {IF h.gen = NoGen THEN [h EXCEPT !.gen = generation] ELSE h : h \in holdList}

\* The items a trim frees: those tagged with a generation in [0, firstUsed>.
trimmable(holdList, firstUsed) ==
    {h \in holdList : h.gen # NoGen /\ h.gen < firstUsed}

\* _enumDict->transfer_hold_lists / _enumDict->trim_hold_lists.
dict_transfer_hold_lists(generation) ==
    dictHoldList' = tagged(dictHoldList, generation)

dict_trim_hold_lists(firstUsed) ==
    dictHoldList' = dictHoldList \ trimmable(dictHoldList, firstUsed)

\* _store.transferHoldLists: tags held entries, buffers and allocations.
store_transferHoldLists(generation) ==
    /\ elemHoldList' = tagged(elemHoldList, generation)
    /\ bufferHoldList' = tagged(bufferHoldList, generation)

\* EnumBufferType::onFree: a freed buffer turns the wish for a compaction
\* into a pending one.
onFreeType(t) ==
    [t EXCEPT !.pendingCompact = t.wantCompact, !.wantCompact = FALSE]

\* _store.trimHoldLists: frees the held entries, then the held buffers and
\* allocations, that were tagged below firstUsed.  A freed entry is released
\* and counted dead in its buffer; a freed buffer gives its memory back,
\* with every entry in it, and becomes FREE.
store_trimHoldLists(firstUsed) ==
    LET elems == trimmable(elemHoldList, firstUsed)
        bufs == trimmable(bufferHoldList, firstUsed)
        freedRefs == {h.ref : h \in elems}
        freedBufs == {h.bufferId : h \in {x \in bufs : x.kind = "buffer"}}
        dead(b) == EntrySize * Cardinality({r \in freedRefs : r[1] = b})
    IN  /\ elemHoldList' = elemHoldList \ elems
        /\ bufferHoldList' = bufferHoldList \ bufs
        /\ states' = [b \in BufferIds |->
                        IF b \in freedBufs THEN FreeState
                        ELSE IF states[b].state = "FREE" THEN states[b]
                        ELSE [states[b] EXCEPT !.deadElems = @ + dead(b)]]
        /\ entries' = Without(entries,
                              freedRefs \cup {r \in DOMAIN entries : r[1] \in freedBufs})
        /\ type' = IF freedBufs # {} THEN onFreeType(type) ELSE type

\* EnumStoreBase::transferHoldLists.
TransferHoldLists(generation) ==
    /\ dict_transfer_hold_lists(generation)
    /\ store_transferHoldLists(generation)
    /\ ret' = NoRet
    /\ UNCHANGED << states, activeBufferId, entries, type, toHoldBuffers, dict,
                    old2New, phase, netAdds, preCompactDict, compactionCount, genVars, readers,
                    calcVars, toolVars, load >>

\* EnumStoreBase::trimHoldLists.
TrimHoldListsInclusive(firstUsed) ==
    /\ dict_trim_hold_lists(firstUsed + 1)
    /\ store_trimHoldLists(firstUsed + 1)
    /\ ret' = NoRet
    /\ UNCHANGED << activeBufferId, toHoldBuffers, dict, old2New, phase,
                    netAdds, preCompactDict, compactionCount, genVars, readers, calcVars, toolVars, load >>

\* trimHoldLists that takes an untagged item for an old one.
TrimHoldListsFreesUntagged(firstUsed) ==
    /\ dict_trim_hold_lists(firstUsed)
    /\ LET elems == {h \in elemHoldList : h.gen < firstUsed}
           freedRefs == {h.ref : h \in elems}
           dead(b) == EntrySize * Cardinality({r \in freedRefs : r[1] = b})
       IN  /\ elemHoldList' = elemHoldList \ elems
           /\ states' = [b \in BufferIds |->
                           IF states[b].state = "FREE" THEN states[b]
                           ELSE [states[b] EXCEPT !.deadElems = @ + dead(b)]]
           /\ entries' = Without(entries, freedRefs)
    /\ ret' = NoRet
    /\ UNCHANGED << bufferHoldList, type, activeBufferId, toHoldBuffers, dict,
                    old2New, phase, netAdds, preCompactDict, compactionCount,
                    genVars, readers, calcVars, toolVars, load >>

\* trimHoldLists that leaves the dictionary's hold list alone.
TrimHoldListsSkipsDictionary(firstUsed) ==
    /\ store_trimHoldLists(firstUsed)
    /\ ret' = NoRet
    /\ UNCHANGED << dictHoldList, activeBufferId, toHoldBuffers, dict, old2New,
                    phase, netAdds, preCompactDict, compactionCount, genVars,
                    readers, calcVars, toolVars, load >>

TrimHoldLists(firstUsed) ==
    /\ dict_trim_hold_lists(firstUsed)
    /\ store_trimHoldLists(firstUsed)
    /\ ret' = NoRet
    /\ UNCHANGED << activeBufferId, toHoldBuffers, dict, old2New, phase,
                    netAdds, preCompactDict, compactionCount, genVars, readers, calcVars, toolVars, load >>

(* ------------------------------------------------------------------ *)
(* Compaction and resizing.                                             *)
(* ------------------------------------------------------------------ *)

RECURSIVE ascending(_)
\* The members of a set of buffer ids in ascending order.
ascending(S) ==
    IF S = {} THEN << >>
    ELSE LET m == CHOOSE x \in S : \A y \in S : x <= y
         IN  << m >> \o ascending(S \ {m})

Range(seq) ==
    {seq[i] : i \in DOMAIN seq}

\* DataStoreBase::switchActiveBuffer: the next FREE buffer after the active
\* one, in cyclic order.
nextFreeBuffer ==
    LET k == CHOOSE i \in 1..NumBuffers :
                /\ states[(activeBufferId + i) % NumBuffers].state = "FREE"
                /\ \A j \in 1..(i - 1) :
                      states[(activeBufferId + j) % NumBuffers].state # "FREE"
    IN  (activeBufferId + k) % NumBuffers

\* What the dictionary reaches: value -> [ref, refCount].
dictContent ==
    [v \in {get(r) : r \in dict} |->
        [ref |-> find(v), refCount |-> entries[find(v)].refCount]]

\* _store.startCompact(TYPE_ID): the active buffers of the type become the
\* buffers to hold and a FREE buffer, sized by calcArraysToAlloc, becomes the
\* active one.  A sizing failure leaves the store as it was.
startCompact(t) ==
    LET newId == nextFreeBuffer
        r == calcArraysToAlloc(t, states, newId, 0)
    IN  IF r.thrown
        THEN /\ type' = t
             /\ ret' = [op |-> "preCompact", result |-> "thrown"]
             /\ UNCHANGED << states, activeBufferId, toHoldBuffers, phase,
                             preCompactDict, compactionCount >>
        ELSE /\ type' = onActiveType(t, states, newId)
             /\ compactionCount' = compactionCount + 1
             /\ states' = [states EXCEPT ![newId] = onActiveState(newId, r.arrays)]
             /\ activeBufferId' = newId
             /\ toHoldBuffers' =
                   ascending({b \in BufferIds : states[b].state = "ACTIVE"})
             /\ phase' = "compacting"
             /\ preCompactDict' = dictContent
             /\ ret' = [op |-> "preCompact", result |-> "true"]

\* preCompact that drops the list startCompact returns.
PreCompactDropsToHold(bytesNeeded) ==
    LET t == setSizeNeededAndDead(type, bytesNeeded,
                                  states[activeBufferId].deadElems)
        newId == nextFreeBuffer
        r == calcArraysToAlloc(t, states, newId, 0)
    IN  /\ phase = "idle"
        /\ compactionCount < MaxCompactions
        /\ IF getBufferIndex("FREE") = NumBuffers
           THEN /\ ret' = [op |-> "preCompact", result |-> "false"]
                /\ UNCHANGED << states, activeBufferId, type, phase,
                                preCompactDict, compactionCount >>
           ELSE IF r.thrown
           THEN /\ type' = t
                /\ ret' = [op |-> "preCompact", result |-> "thrown"]
                /\ UNCHANGED << states, activeBufferId, phase, preCompactDict,
                                compactionCount >>
           ELSE /\ type' = onActiveType(t, states, newId)
                /\ compactionCount' = compactionCount + 1
                /\ states' = [states EXCEPT ![newId] = onActiveState(newId, r.arrays)]
                /\ activeBufferId' = newId
                /\ phase' = "compacting"
                /\ preCompactDict' = dictContent
                /\ ret' = [op |-> "preCompact", result |-> "true"]
        /\ UNCHANGED << toHoldBuffers, entries, elemHoldList, bufferHoldList,
                        dict, dictHoldList, old2New, netAdds, genVars, readers,
                        calcVars, toolVars, load >>

\* preCompact that does not hand bytesNeeded to the buffer type.
PreCompactForgetsSize(bytesNeeded) ==
    /\ phase = "idle"
    /\ compactionCount < MaxCompactions
    /\ IF getBufferIndex("FREE") = NumBuffers
       THEN /\ ret' = [op |-> "preCompact", result |-> "false"]
            /\ UNCHANGED << states, activeBufferId, type, toHoldBuffers, phase,
                            preCompactDict, compactionCount >>
       ELSE startCompact(setSizeNeededAndDead(type, 0,
                                              states[activeBufferId].deadElems))
    /\ UNCHANGED << entries, elemHoldList, bufferHoldList, dict, dictHoldList,
                    old2New, netAdds, genVars, readers, calcVars, toolVars, load >>

\* preCompact that hands the size and the dead elements to the buffer type
\* before it looks for a FREE buffer.
PreCompactRecordsFirst(bytesNeeded) ==
    /\ phase = "idle"
    /\ compactionCount < MaxCompactions
    /\ IF getBufferIndex("FREE") = NumBuffers
       THEN /\ ret' = [op |-> "preCompact", result |-> "false"]
            /\ type' = setSizeNeededAndDead(type, bytesNeeded,
                                            states[activeBufferId].deadElems)
            /\ UNCHANGED << states, activeBufferId, toHoldBuffers, phase,
                            preCompactDict, compactionCount >>
       ELSE startCompact(setSizeNeededAndDead(type, bytesNeeded,
                                              states[activeBufferId].deadElems))
    /\ UNCHANGED << entries, elemHoldList, bufferHoldList, dict, dictHoldList,
                    old2New, netAdds, genVars, readers, calcVars, toolVars, load >>

\* EnumStoreBase::preCompact.
PreCompact(bytesNeeded) ==
    /\ phase = "idle"
    /\ compactionCount < MaxCompactions
    /\ IF getBufferIndex("FREE") = NumBuffers
       THEN /\ ret' = [op |-> "preCompact", result |-> "false"]
            /\ UNCHANGED << states, activeBufferId, type, toHoldBuffers, phase,
                            preCompactDict, compactionCount >>
       ELSE startCompact(setSizeNeededAndDead(type, bytesNeeded,
                                              states[activeBufferId].deadElems))
    /\ UNCHANGED << entries, elemHoldList, bufferHoldList, dict, dictHoldList,
                    old2New, netAdds, genVars, readers, calcVars, toolVars, load >>

\* A relocation that copies every entry to the first free slot of the
\* active buffer.
relocationMapOneSlot ==
    LET olds == {r \in dict : r[1] \in Range(toHoldBuffers)}
    IN  [r \in olds |-> << activeBufferId, states[activeBufferId].usedElems >>]

\* The relocation a compaction performs between preCompact and postCompact:
\* every entry the dictionary reaches in a buffer to hold is copied, in
\* dictionary order, to the active buffer, and the dictionary key is
\* rewritten to the new ref.  The old-to-new map is what the caller applies
\* to its own refs.  A copy is stored only inside the memory the active
\* buffer was given.
relocationMap ==
    LET olds == {r \in dict : r[1] \in Range(toHoldBuffers)}
        rank(r) == Cardinality({q \in olds : get(q) < get(r)})
    IN  [r \in olds |->
            << activeBufferId,
               states[activeBufferId].usedElems + rank(r) * EntrySize >>]

Relocate ==
    LET map == relocationMap
        olds == DOMAIN map
        news == {map[r] : r \in olds}
        oldOf(n) == CHOOSE r \in olds : map[r] = n
        fits == {n \in news :
                    n[2] + EntrySize <= states[activeBufferId].allocElems}
    IN  /\ phase = "compacting"
        /\ entries' = [x \in (DOMAIN entries) \cup fits |->
                          IF x \in fits THEN entries[oldOf(x)] ELSE entries[x]]
        /\ states' = [states EXCEPT ![activeBufferId].usedElems =
                                        @ + EntrySize * Cardinality(olds)]
        /\ dict' = (dict \ olds) \cup news
        /\ old2New' = map
        /\ phase' = "relocated"
        /\ ret' = NoRet
        /\ UNCHANGED << activeBufferId, elemHoldList, bufferHoldList, type,
                        toHoldBuffers, dictHoldList, netAdds, preCompactDict,
                        compactionCount, genVars, readers, calcVars, toolVars, load >>

\* BufferTypeBase::onHold: the held buffer's elements leave the type's count
\* of active elements (after a flush of the last-used pointer when it is the
\* held buffer's).
onHoldType(t, st, bufferId) ==
    [t EXCEPT !.activeUsedElems =
                  (IF t.lastUsedElems = bufferId THEN @ + st[bufferId].usedElems
                   ELSE @) - st[bufferId].usedElems,
              !.lastUsedElems = IF @ = bufferId THEN NoBuffer ELSE @]

RECURSIVE onHoldAll(_, _, _)
onHoldAll(t, st, bufs) ==
    IF bufs = << >> THEN t
    ELSE onHoldAll(onHoldType(t, st, Head(bufs)), st, Tail(bufs))

\* _store.finishCompact(toHold): every buffer of the list goes on hold.
finishCompact(toHold) ==
    /\ states' = [b \in BufferIds |->
                    IF b \in Range(toHold) THEN [states[b] EXCEPT !.state = "HOLD"]
                    ELSE states[b]]
    /\ type' = onHoldAll(type, states, toHold)
    /\ bufferHoldList' = bufferHoldList \cup
            {[kind |-> "buffer", bufferId |-> b, gen |-> NoGen] : b \in Range(toHold)}

\* EnumStoreBase::postCompact.
PostCompactHoldsNothing ==
    /\ phase = "relocated"
    /\ states' = [b \in BufferIds |->
                    IF b \in Range(toHoldBuffers) THEN FreeState ELSE states[b]]
    /\ entries' = Without(entries,
                          {r \in DOMAIN entries : r[1] \in Range(toHoldBuffers)})
    /\ type' = onHoldAll(type, states, toHoldBuffers)
    /\ phase' = "idle"
    /\ old2New' = << >>
    /\ preCompactDict' = << >>
    /\ ret' = NoRet
    /\ UNCHANGED << bufferHoldList, activeBufferId, elemHoldList,
                    toHoldBuffers, dict, dictHoldList, netAdds, compactionCount, genVars,
                    readers, calcVars, toolVars, load >>

PostCompact ==
    /\ phase = "relocated"
    /\ finishCompact(toHoldBuffers)
    /\ phase' = "idle"
    /\ old2New' = << >>
    /\ preCompactDict' = << >>
    /\ ret' = NoRet
    /\ UNCHANGED << activeBufferId, entries, elemHoldList, toHoldBuffers, dict,
                    dictHoldList, netAdds, compactionCount, genVars, readers, calcVars, toolVars, load >>

\* DataStoreBase::fallbackResize: the buffer gets a new allocation sized by
\* calcArraysToAlloc, its content is copied, and the old allocation goes on
\* hold.  A sizing failure leaves the buffer as it was.
store_fallbackResize(t, bufferId, elemsNeeded) ==
    LET r == calcArraysToAlloc(t, states, bufferId, elemsNeeded)
    IN  IF r.thrown
        THEN /\ ret' = [op |-> "fallbackResize", result |-> "thrown"]
             /\ UNCHANGED << states, bufferHoldList >>
        ELSE /\ states' = [states EXCEPT ![bufferId].allocElems = r.arrays * ArraySize]
             /\ bufferHoldList' = bufferHoldList \cup
                    {[kind |-> "alloc", bufferId |-> bufferId, gen |-> NoGen]}
             /\ ret' = [op |-> "fallbackResize", result |-> "done"]

\* The elements left in the active buffer.
getRemaining ==
    states[activeBufferId].allocElems - states[activeBufferId].usedElems

\* fallbackResize without the call of setWantCompact.
FallbackResizeForgetsWantCompact(bytesNeeded) ==
    LET reservedElements == getReservedElements(activeBufferId)
        t == setSizeNeededAndDead(type, bytesNeeded, reservedElements)
    IN  /\ phase = "idle"
        /\ getBufferIndex("FREE") = NumBuffers
        /\ getRemaining < bytesNeeded
        /\ type' = t
        /\ store_fallbackResize(t, activeBufferId, bytesNeeded)
        /\ UNCHANGED << activeBufferId, entries, elemHoldList, toHoldBuffers,
                        dict, dictHoldList, old2New, phase, netAdds,
                        preCompactDict, compactionCount, genVars, readers, calcVars, toolVars, load >>

\* EnumStoreBase::fallbackResize.  The caller resorts to it when the active
\* buffer lacks the room it needs and no buffer is free to compact into.
FallbackResize(bytesNeeded) ==
    LET reservedElements == getReservedElements(activeBufferId)
        t == [setSizeNeededAndDead(type, bytesNeeded, reservedElements)
                EXCEPT !.wantCompact = TRUE]
    IN  /\ phase = "idle"
        /\ getBufferIndex("FREE") = NumBuffers
        /\ getRemaining < bytesNeeded
        /\ type' = t
        /\ store_fallbackResize(t, activeBufferId, bytesNeeded)
        /\ UNCHANGED << activeBufferId, entries, elemHoldList, toHoldBuffers,
                        dict, dictHoldList, old2New, phase, netAdds,
                        preCompactDict, compactionCount, genVars, readers, calcVars, toolVars, load >>

(* ------------------------------------------------------------------ *)
(* Generation handler and readers.                                      *)
(* ------------------------------------------------------------------ *)

\* The writer ends a generation: the generation handler moves on.
IncGeneration ==
    /\ currentGeneration < MaxGen
    /\ currentGeneration' = currentGeneration + 1
    /\ ret' = NoRet
    /\ UNCHANGED << storeVars, firstUsedGeneration, readers, calcVars, toolVars, load >>

\* The oldest generation a registered reader may still be reading under.
oldestUsedGeneration ==
    IF \E r \in Readers : readers[r].registered
    THEN CHOOSE g \in {readers[r].gen : r \in {x \in Readers : readers[x].registered}} :
            \A r \in Readers : readers[r].registered => g <= readers[r].gen
    ELSE currentGeneration

\* updateFirstUsedGeneration that takes the current generation without
\* looking at the registered readers.
UpdateFirstUsedGenerationToCurrent ==
    /\ firstUsedGeneration # currentGeneration
    /\ firstUsedGeneration' = currentGeneration
    /\ ret' = NoRet
    /\ UNCHANGED << storeVars, currentGeneration, readers, calcVars, toolVars, load >>

\* GenerationHandler::updateFirstUsedGeneration.
UpdateFirstUsedGeneration ==
    /\ firstUsedGeneration # oldestUsedGeneration
    /\ firstUsedGeneration' = oldestUsedGeneration
    /\ ret' = NoRet
    /\ UNCHANGED << storeVars, currentGeneration, readers, calcVars, toolVars, load >>

\* A reader takes a guard on the current generation.
ReaderRegister(r) ==
    /\ ~readers[r].registered
    /\ readers' = [readers EXCEPT ![r] =
                      [registered |-> TRUE, gen |-> currentGeneration,
                       ref |-> NullRef, value |-> 0]]
    /\ ret' = NoRet
    /\ UNCHANGED << storeVars, genVars, calcVars, toolVars, load >>

\* The refs a reader can come by: the keys of the dictionary and, until the
\* caller has applied the relocation map, the refs it still keeps from before
\* the relocation.
obtainableRefs ==
    dict \cup (IF phase = "relocated" THEN DOMAIN old2New ELSE {})

\* A registered reader obtains a ref and reads the value behind it.
ReaderObtain(r, ref) ==
    /\ readers[r].registered
    /\ ref \in obtainableRefs
    /\ readers[r].ref # ref
    /\ readers' = [readers EXCEPT ![r].ref = ref, ![r].value = get(ref)]
    /\ ret' = NoRet
    /\ UNCHANGED << storeVars, genVars, calcVars, toolVars, load >>

\* The reader drops its guard.
ReaderDeregister(r) ==
    /\ readers[r].registered
    /\ readers' = [readers EXCEPT ![r] =
                      [registered |-> FALSE, gen |-> 0, ref |-> NullRef,
                       value |-> 0]]
    /\ ret' = NoRet
    /\ UNCHANGED << storeVars, genVars, calcVars, toolVars, load >>

(* ------------------------------------------------------------------ *)
(* The store with its writer and its readers.                           *)
(* ------------------------------------------------------------------ *)

AllRefs ==
    {<< b, o * EntrySize >> : b \in BufferIds, o \in 0..(MaxEntries + 1)}

\* The writer and the readers of one store.  The writer asks for the room of
\* one more entry when it compacts or resizes.
Next ==
    \/ \E value \in Values : Add(value)
    \/ \E ref \in AllRefs : Remove(ref)
    \/ PreCompact(EntrySize)
    \/ Relocate
    \/ PostCompact
    \/ FallbackResize(EntrySize)
    \/ TransferHoldLists(currentGeneration)
    \/ TrimHoldLists(firstUsedGeneration)
    \/ IncGeneration
    \/ UpdateFirstUsedGeneration
    \/ \E r \in Readers : ReaderRegister(r)
    \/ \E r \in Readers, ref \in AllRefs : ReaderObtain(r, ref)
    \/ \E r \in Readers : ReaderDeregister(r)

Spec ==
    Init /\ [][Next]_vars

\* The generations a caller may hand to trimHoldLists.
Generations ==
    0..(MaxGen + 1)

\* The writer and the readers, with trimHoldLists called for any generation
\* rather than for the generation handler's first used one.  The writer
\* compacts once.
NextAnyTrim ==
    \/ \E value \in Values : Add(value)
    \/ \E ref \in AllRefs : Remove(ref)
    \/ compactionCount = 0 /\ PreCompact(EntrySize)
    \/ Relocate
    \/ PostCompact
    \/ TransferHoldLists(currentGeneration)
    \/ \E g \in Generations : TrimHoldLists(g)
    \/ IncGeneration
    \/ UpdateFirstUsedGeneration
    \/ \E r \in Readers : ReaderRegister(r)
    \/ \E r \in Readers, ref \in AllRefs : ReaderObtain(r, ref)
    \/ \E r \in Readers : ReaderDeregister(r)

SpecAnyTrim ==
    Init /\ [][NextAnyTrim]_vars

\* The writer alone, storing one value and asking for every size of
\* SizesNeeded, in a store constructed with any of InitBufferSizes.
InitSizing ==
    /\ \E initBufferSize \in InitBufferSizes : InitStore(initBufferSize)
    /\ InitGen
    /\ ret = NoRet
    /\ calcIn = [op |-> "none"]
    /\ calcOut = [op |-> "none"]
    /\ load = NoLoad
    /\ tool = NoTool

NextSizing ==
    \/ Add(1)
    \/ \E ref \in AllRefs : Remove(ref)
    \/ \E bytesNeeded \in SizesNeeded : PreCompact(bytesNeeded)
    \/ Relocate
    \/ PostCompact
    \/ \E bytesNeeded \in SizesNeeded : FallbackResize(bytesNeeded)
    \/ TransferHoldLists(currentGeneration)
    \/ TrimHoldLists(firstUsedGeneration)
    \/ IncGeneration
    \/ UpdateFirstUsedGeneration

SpecSizing ==
    InitSizing /\ [][NextSizing]_vars

(* ------------------------------------------------------------------ *)
(* calcArraysToAlloc on its own.                                        *)
(* ------------------------------------------------------------------ *)

\* Largest buffer size, in elements.
maxSize ==
    MaxArrays * ArraySize

\* The inputs of a call: the buffer id, the size asked for, and the fields
\* of the type the function reads.  Used elements are whole arrays (the
\* function asserts it) and dead elements are among the used ones.
CalcInputs ==
    {inp \in [bufferId : BufferIds,
              sizeNeeded : {0, 1, EntrySize, 3000000, maxSize},
              minSizeNeeded : {0, EntrySize + 8, 2800000},
              usedElems : {0, ArraySize, 3 * ArraySize, 100000 * ArraySize,
                           187500 * ArraySize, maxSize},
              deadElems : {0, 5, ArraySize, 2 * ArraySize + 8, 100000 * ArraySize}] :
        inp.deadElems <= inp.usedElems}

InitCalc ==
    /\ InitStore(2 * EntrySize)
    /\ InitGen
    /\ ret = NoRet
    /\ calcIn \in CalcInputs
    /\ calcOut = [op |-> "none"]
    /\ load = NoLoad
    /\ tool = NoTool

\* One call of calcArraysToAlloc on the drawn input.
CalcArraysToAlloc ==
    /\ calcOut.op = "none"
    /\ calcOut' = [op |-> "done",
                   result |-> calcArrays(calcIn.bufferId, calcIn.sizeNeeded,
                                         calcIn.minSizeNeeded, calcIn.usedElems,
                                         calcIn.deadElems)]
    /\ UNCHANGED << storeVars, genVars, readers, ret, calcIn, load, toolVars >>

NextCalc ==
    CalcArraysToAlloc

SpecCalc ==
    InitCalc /\ [][NextCalc]_vars

\* The two sizes calcArraysToAlloc compares with the maximum, for the drawn
\* input, and the size the caller asked room for.
calcFirstSize ==
    firstNewSize(calcIn.bufferId, Max(calcIn.sizeNeeded, calcIn.minSizeNeeded),
                 calcIn.usedElems, calcIn.deadElems)

calcJustEnoughSize ==
    secondNewSize(calcIn.bufferId, Max(calcIn.sizeNeeded, calcIn.minSizeNeeded),
                  calcIn.usedElems, calcIn.deadElems)

calcRequested ==
    calcIn.usedElems - calcIn.deadElems
        + Max(calcIn.sizeNeeded, calcIn.minSizeNeeded)
        + getReservedElements(calcIn.bufferId)

(* ------------------------------------------------------------------ *)
(* Reset and bulk load.                                                 *)
(* ------------------------------------------------------------------ *)

RECURSIVE onFreeTimes(_, _)
\* EnumBufferType::onFree once for each of n buffers that are dropped.
onFreeTimes(t, n) ==
    IF n = 0 THEN t ELSE onFreeTimes(onFreeType(t), n - 1)

\* What reset(initBufferSize) leaves of the data store and the type:
\* clearHoldLists frees everything the store holds, dropBuffers frees every
\* buffer with the entries in it, the type gets initBufferSize as its
\* minimum size and no dead elements, and initActiveBuffers activates
\* buffer 0 with the size calcArraysToAlloc gives it.
resetStore(initBufferSize) ==
    LET dropped == Cardinality({b \in BufferIds : states[b].state # "FREE"})
        t0 == [onFreeTimes(type, dropped) EXCEPT !.activeUsedElems = 0,
                                                 !.lastUsedElems = NoBuffer]
        t1 == setSizeNeededAndDead(t0, initBufferSize, 0)
        st0 == [b \in BufferIds |-> FreeState]
        r == calcArraysToAlloc(t1, st0, 0, 0)
    IN  IF r.thrown
        THEN [thrown |-> TRUE, states |-> st0, type |-> t1]
        ELSE [thrown |-> FALSE,
              states |-> [st0 EXCEPT ![0] = onActiveState(0, r.arrays)],
              type |-> onActiveType(t1, st0, 0)]

\* EnumStoreBase::reset.  _enumDict->onReset() empties the dictionary; its
\* nodes go on the dictionary's hold list.
Reset(initBufferSize) ==
    LET r == resetStore(initBufferSize)
    IN  /\ phase = "idle"
        /\ states' = r.states
        /\ type' = r.type
        /\ activeBufferId' = 0
        /\ entries' = << >>
        /\ elemHoldList' = {}
        /\ bufferHoldList' = {}
        /\ dict' = {}
        /\ dictHoldList' = dictHoldList
                \cup {[ref |-> x, gen |-> NoGen] : x \in dict}
        /\ netAdds' = [v \in Values |-> 0]
        /\ ret' = [op |-> "reset",
                   result |-> IF r.thrown THEN "thrown" ELSE "done"]
        /\ UNCHANGED << toHoldBuffers, old2New, phase, preCompactDict,
                        compactionCount, genVars, readers, calcVars, toolVars, load >>

\* The serialized inputs of a bulk load: the unique values in ascending
\* order, as the store was saved.
RECURSIVE ascendingSeqs(_)
ascendingSeqs(n) ==
    IF n = 0 THEN {<< >>}
    ELSE ascendingSeqs(n - 1)
            \cup {Append(q, n) : q \in ascendingSeqs(n - 1)}

Sources ==
    ascendingSeqs(NumValues)

\* The historical reference counts handed to fixupRefCounts: up to one more
\* than there are values.
Histories ==
    UNION {[1..n -> 0..MaxRefCount] : n \in 0..(NumValues + 1)}

\* The space the first pass of deserialize0 computes: one alignment unit and
\* the aligned size of every entry.
initSpaceOf(src) ==
    ArraySize + Len(src) * EntrySize

\* The negative sizes the parse of a record reports for an entry the input
\* holds only in part or not as an entry at all.
ParseErrors ==
    {-1, -2}

RECURSIVE parsePass(_, _, _, _)
\* One while loop of deserialize0 from record i on: every record is parsed
\* in turn and takes EntrySize bytes of the input; the parse of record bad
\* returns err, which ends the loop at once.  sz is the negative size or the
\* bytes consumed, calls the number of records the loop has parsed.
parsePass(src, i, bad, err) ==
    IF i > Len(src) THEN [sz |-> 0, calls |-> 0]
    ELSE IF i = bad THEN [sz |-> err, calls |-> 1]
    ELSE LET rest == parsePass(src, i + 1, bad, err)
         IN  [sz |-> IF rest.sz < 0 THEN rest.sz ELSE rest.sz + EntrySize,
              calls |-> rest.calls + 1]

\* deserialize that builds and assigns the tree whatever deserialize0 returns.
treeAssignedAlways(sz) ==
    TRUE

\* deserialize: the tree is built from the index vector and assigned only
\* when deserialize0 did not return a negative size.
treeAssigned(sz) ==
    sz >= 0

\* deserialize0 that goes on to reset whatever the first pass reported.
resetReachedAlways(sz) ==
    TRUE

\* deserialize0: reset(initSpace) is reached only when no parse of the first
\* pass reported a negative size.
resetReached(sz) ==
    sz >= 0

\* EnumStoreBase::deserialize with deserialize0.  The first pass sizes the
\* store; reset then gives the store a buffer of the computed size; the
\* second pass writes the entries, each with reference count 0, and pushes
\* their refs on the index vector; the tree is built from the refs.  Record
\* bad (0 for none) is one whose parse returns err, in the pass given: the
\* pass returns err at once, the first before the reset, the second after
\* it with the entries before the record written.
Deserialize(src, bad, pass, err) ==
    LET p1 == parsePass(src, 1, IF pass = 1 THEN bad ELSE 0, err)
        didReset == resetReached(p1.sz)
        p2 == IF didReset
              THEN parsePass(src, 1, IF pass = 2 THEN bad ELSE 0, err)
              ELSE [sz |-> p1.sz, calls |-> 0]
        sz == p2.sz
        n == IF p2.sz < 0 /\ didReset THEN p2.calls - 1 ELSE p2.calls
        r == resetStore(initSpaceOf(src))
        base == r.states[0].usedElems
        refOf(i) == << 0, base + (i - 1) * EntrySize >>
        idx == [i \in 1..n |-> refOf(i)]
    IN  /\ phase = "idle"
        /\ load.state = "none"
        /\ bad <= Len(src)
        /\ IF didReset
           THEN /\ ~r.thrown
                /\ states' = [r.states EXCEPT ![0].usedElems = @ + n * EntrySize]
                /\ type' = r.type
                /\ activeBufferId' = 0
                /\ entries' = [x \in {refOf(i) : i \in 1..n} |->
                                  LET i == CHOOSE j \in 1..n : refOf(j) = x
                                  IN  [value |-> src[i], refCount |-> 0]]
                /\ elemHoldList' = {}
                /\ bufferHoldList' = {}
                /\ dict' = IF treeAssigned(sz) THEN Range(idx) ELSE {}
                /\ dictHoldList' = dictHoldList
                        \cup {[ref |-> x, gen |-> NoGen] : x \in dict}
                /\ netAdds' = [v \in Values |-> 0]
           ELSE /\ dict' = IF treeAssigned(sz) THEN Range(idx) ELSE dict
                /\ UNCHANGED << states, type, activeBufferId, entries,
                                elemHoldList, bufferHoldList, dictHoldList,
                                netAdds >>
        /\ ret' = [op |-> "deserialize", result |-> sz]
        /\ load' = [state |-> IF sz < 0 THEN "failed" ELSE "deserialized",
                    idx |-> idx, calls1 |-> p1.calls, calls2 |-> p2.calls,
                    didReset |-> didReset, assigned |-> treeAssigned(sz)]
        /\ UNCHANGED << toHoldBuffers, old2New, phase, preCompactDict,
                        compactionCount, genVars, readers, calcVars, toolVars >>

RECURSIVE inOrder(_, _)
\* Tree::Iterator from tree.begin(): the keys of the dictionary in ascending
\* order of the values they lead to.
inOrder(d, mem) ==
    IF d = {} THEN << >>
    ELSE LET m == CHOOSE x \in d : \A y \in d : mem[x].value <= mem[y].value
         IN  << m >> \o inOrder(d \ {m}, mem)

\* fixupRefCount for the first n keys: key i gets hist[i].
fixedUp(mem, keys, hist, n) ==
    [x \in DOMAIN mem |->
        IF \E i \in 1..n : keys[i] = x
        THEN [mem[x] EXCEPT !.refCount = hist[CHOOSE i \in 1..n : keys[i] = x]]
        ELSE mem[x]]

\* freeUnusedEnums: every key whose entry has reference count 0 leaves the
\* dictionary and the entry goes on hold.
unusedEnums(d, mem) ==
    {x \in d : mem[x].refCount = 0}

RECURSIVE reversed(_)
reversed(seq) ==
    IF seq = << >> THEN << >> ELSE reversed(Tail(seq)) \o << Head(seq) >>

\* The body of fixupRefCounts over the keys the tree iterator yields.  An
\* empty history returns at once.  Otherwise the loop runs over the history
\* with the iterator in step, asserting at each element that the iterator
\* is valid, and asserts after the last that the iterator is at its end; a
\* failed assertion ends the process.  Then freeUnusedEnums retires the
\* entries left with reference count 0.
fixupRefCountsOver(hist, keys) ==
    LET n == Len(hist)
        m == Len(keys)
        k == IF n <= m THEN n ELSE m
        mem == fixedUp(entries, keys, hist, k)
        unused == unusedEnums(dict, mem)
    IN  /\ phase = "idle"
        /\ load.state = "deserialized"
        /\ IF hist = << >>
           THEN /\ ret' = [op |-> "fixupRefCounts", result |-> "returned"]
                /\ load' = [load EXCEPT !.state = "fixed"]
                /\ UNCHANGED << entries, dict, dictHoldList, elemHoldList >>
           ELSE IF n # m
           THEN /\ ret' = [op |-> "fixupRefCounts", result |-> "aborted"]
                /\ load' = [load EXCEPT !.state = "aborted"]
                /\ entries' = mem
                /\ UNCHANGED << dict, dictHoldList, elemHoldList >>
           ELSE /\ ret' = [op |-> "fixupRefCounts", result |-> "returned"]
                /\ load' = [load EXCEPT !.state = "fixed"]
                /\ entries' = mem
                /\ dict' = dict \ unused
                /\ dictHoldList' = dictHoldList
                        \cup {[ref |-> x, gen |-> NoGen] : x \in unused}
                /\ elemHoldList' = elemHoldList
                        \cup {[ref |-> x, gen |-> NoGen] : x \in unused}
        /\ UNCHANGED << states, activeBufferId, bufferHoldList, type,
                        toHoldBuffers, old2New, phase, netAdds, preCompactDict,
                        compactionCount, genVars, readers, calcVars, toolVars >>

\* fixupRefCounts that walks the tree from its last key to its first.
FixupRefCountsBackwards(hist) ==
    fixupRefCountsOver(hist, reversed(inOrder(dict, entries)))

\* EnumStoreBase::fixupRefCounts.
FixupRefCounts(hist) ==
    fixupRefCountsOver(hist, inOrder(dict, entries))

\* A store that is filled and emptied by its writer, reset, and then loaded
\* from a serialized input and a history of reference counts.  A failed
\* assertion ends the process.
NextLoad ==
    \/ \E value \in Values : load.state = "none" /\ Add(value)
    \/ \E ref \in AllRefs : load.state = "none" /\ Remove(ref)
    \/ \E initBufferSize \in InitBufferSizes :
          load.state = "none" /\ Reset(initBufferSize)
    \/ \E src \in Sources, bad \in 0..NumValues, pass \in 1..2,
             err \in ParseErrors : Deserialize(src, bad, pass, err)
    \/ \E hist \in Histories : FixupRefCounts(hist)
    \/ load.state # "aborted" /\ TransferHoldLists(currentGeneration)
    \/ load.state # "aborted" /\ TrimHoldLists(firstUsedGeneration)
    \/ load.state # "aborted" /\ IncGeneration
    \/ load.state # "aborted" /\ UpdateFirstUsedGeneration

SpecLoad ==
    Init /\ [][NextLoad]_vars

\* The writer alone with every operation that allocates, moves or drops
\* entries: it adds and removes values, compacts, resizes in place, resets
\* the store to the size of one entry and maintains the hold lists.
NextWriter ==
    \/ \E value \in Values : Add(value)
    \/ \E ref \in AllRefs : Remove(ref)
    \/ PreCompact(EntrySize)
    \/ Relocate
    \/ PostCompact
    \/ FallbackResize(EntrySize)
    \/ Reset(EntrySize)
    \/ TransferHoldLists(currentGeneration)
    \/ TrimHoldLists(firstUsedGeneration)
    \/ IncGeneration
    \/ UpdateFirstUsedGeneration

SpecWriter ==
    Init /\ [][NextWriter]_vars

\* The writer and the readers as in NextAnyTrim, with trimHoldLists called
\* for the generation handler's first used generation.
NextLive ==
    \/ \E value \in Values : Add(value)
    \/ \E ref \in AllRefs : Remove(ref)
    \/ compactionCount = 0 /\ PreCompact(EntrySize)
    \/ Relocate
    \/ PostCompact
    \/ TransferHoldLists(currentGeneration)
    \/ TrimHoldLists(firstUsedGeneration)
    \/ IncGeneration
    \/ UpdateFirstUsedGeneration
    \/ \E r \in Readers : ReaderRegister(r)
    \/ \E r \in Readers : ReaderDeregister(r)

\* The writer keeps calling transferHoldLists and trimHoldLists, the
\* generation handler keeps advancing and updating its first used
\* generation, and a reader does not keep its guard for ever.
Fairness ==
    /\ WF_vars(TransferHoldLists(currentGeneration))
    /\ WF_vars(TrimHoldLists(firstUsedGeneration))
    /\ WF_vars(IncGeneration)
    /\ WF_vars(UpdateFirstUsedGeneration)
    /\ \A r \in Readers : WF_vars(ReaderDeregister(r))

SpecLive ==
    Init /\ [][NextLive]_vars /\ Fairness

(* ------------------------------------------------------------------ *)
(* deserialize0, one record parse at a time.                            *)
(* ------------------------------------------------------------------ *)

\* Bytes of the longest serialized input.
MaxAvailable ==
    3

\* size_t, scaled down: left is kept modulo this.
SizeModulus ==
    16

\* What the parse of the record at an offset reports: a negative size, or
\* the bytes the record takes.  The record parsers are virtual and not part
\* of EnumStoreBase; nothing in deserialize0 keeps a report from being 0 or
\* more than the bytes left.
ParseResults ==
    -1..MaxAvailable

\* A serialized input: for every offset, what the parse of a record that
\* starts there reports.
Inputs ==
    UNION {[1..available -> ParseResults] : available \in 0..MaxAvailable}

\* A sizing parse that takes every record for one byte long.
firstParseOneByte(input, p) ==
    IF input[p + 1] < 0 THEN input[p + 1] ELSE 1

\* deserialize(p, left, initSpace) and deserialize(p, left, idx1).  The
\* second reports the same size as the first, or fails at offset bad - 1.
firstParse(input, p) ==
    input[p + 1]

secondParse(input, p, bad) ==
    IF p + 1 = bad THEN -1 ELSE input[p + 1]

\* The first pass adds the aligned size of every record it sizes to
\* initSpace.  The sum is followed up to the space of one record more than
\* the longest input can hold.
MaxInitSpace ==
    ArraySize + (MaxAvailable + 1) * EntrySize

Min(a, b) ==
    IF a <= b THEN a ELSE b

\* The value of the entry serialized at an offset.
valueAt(p) ==
    p + 1

\* deserialize0 is entered: left = available, initSpace = Index::align(1),
\* p = src.
Deserialize0Begin(input, bad) ==
    /\ phase = "idle"
    /\ load.state = "none"
    /\ bad <= Len(input)
    /\ load' = [state |-> "first", input |-> input, bad |-> bad,
                available |-> Len(input), left |-> Len(input), p |-> 0,
                initSpace |-> ArraySize, idx |-> << >>, result |-> 0,
                didReset |-> FALSE]
    /\ ret' = NoRet
    /\ UNCHANGED << storeVars, genVars, readers, calcVars, toolVars >>

\* One turn of the first while loop: the record at p is sized.  A negative
\* size is returned at once.  Otherwise p and left move on by the size
\* reported; a size beyond left wraps left around and takes p past the end
\* of the input.
FirstPassParse ==
    LET sz == firstParse(load.input, load.p)
    IN  /\ load.state = "first"
        /\ load.left > 0
        /\ IF sz < 0
           THEN /\ load' = [load EXCEPT !.state = "returned", !.result = sz]
                /\ ret' = [op |-> "deserialize0", result |-> sz]
           ELSE /\ load' = [load EXCEPT
                               !.state = IF sz > load.left THEN "overrun" ELSE @,
                               !.p = @ + sz,
                               !.left = (@ - sz) % SizeModulus,
                               !.initSpace = Min(@ + EntrySize, MaxInitSpace)]
                /\ ret' = NoRet
        /\ UNCHANGED << storeVars, genVars, readers, calcVars, toolVars >>

\* Between the loops: reset(initSpace), then left = available and p = src.
\* A reset that throws ends the call.
ResetBetweenPasses ==
    LET r == resetStore(load.initSpace)
    IN  /\ load.state = "first"
        /\ load.left = 0
        /\ states' = r.states
        /\ type' = r.type
        /\ activeBufferId' = 0
        /\ entries' = << >>
        /\ elemHoldList' = {}
        /\ bufferHoldList' = {}
        /\ dict' = {}
        /\ dictHoldList' = dictHoldList
                \cup {[ref |-> x, gen |-> NoGen] : x \in dict}
        /\ netAdds' = [v \in Values |-> 0]
        /\ load' = [load EXCEPT
                       !.state = IF r.thrown THEN "thrown" ELSE "second",
                       !.left = load.available, !.p = 0, !.didReset = TRUE]
        /\ ret' = NoRet
        /\ UNCHANGED << toHoldBuffers, old2New, phase, preCompactDict,
                        compactionCount, genVars, readers, calcVars, toolVars >>

\* One turn of the second while loop: the record at p is stored as an entry
\* of the active buffer with reference count 0 and its ref is pushed on
\* idx.  A negative size is returned at once, before the push.
SecondPassParse ==
    LET sz == secondParse(load.input, load.p, load.bad)
        ref == << activeBufferId, states[activeBufferId].usedElems >>
    IN  /\ load.state = "second"
        /\ load.left > 0
        /\ IF sz < 0
           THEN /\ load' = [load EXCEPT !.state = "returned", !.result = sz]
                /\ ret' = [op |-> "deserialize0", result |-> sz]
                /\ UNCHANGED << states, entries >>
           ELSE /\ entries' = Store(entries, ref,
                                    [value |-> valueAt(load.p), refCount |-> 0])
                /\ states' = [states EXCEPT ![activeBufferId].usedElems =
                                               @ + EntrySize]
                /\ load' = [load EXCEPT
                               !.state = IF sz > load.left THEN "overrun" ELSE @,
                               !.p = @ + sz,
                               !.left = (@ - sz) % SizeModulus,
                               !.idx = Append(@, ref)]
                /\ ret' = NoRet
        /\ UNCHANGED << activeBufferId, elemHoldList, bufferHoldList, type,
                        toHoldBuffers, dict, dictHoldList, old2New, phase,
                        compactionCount, netAdds, preCompactDict, genVars,
                        readers, calcVars, toolVars >>

\* The second loop has ended: return available - left.
Deserialize0Return ==
    /\ load.state = "second"
    /\ load.left = 0
    /\ load' = [load EXCEPT !.state = "returned",
                            !.result = load.available - load.left]
    /\ ret' = [op |-> "deserialize0", result |-> load.available - load.left]
    /\ UNCHANGED << storeVars, genVars, readers, calcVars, toolVars >>

\* A loop that has gone past the end of the input reads memory that is not
\* the input's: what the parses report from there on is undefined.  The
\* call may end with a negative size or with the process, or go on.
PastTheInput ==
    /\ load.state = "overrun"
    /\ \/ /\ load' = [load EXCEPT !.state = "returned", !.result = -1]
          /\ ret' = [op |-> "deserialize0", result |-> -1]
       \/ /\ load' = [load EXCEPT !.state = "crashed"]
          /\ ret' = NoRet
    /\ UNCHANGED << storeVars, genVars, readers, calcVars, toolVars >>

\* A store that is filled by its writer and then loaded from a serialized
\* input, record by record.
NextParse ==
    \/ \E value \in Values : load.state = "none" /\ Add(value)
    \/ \E ref \in AllRefs : load.state = "none" /\ Remove(ref)
    \/ \E input \in Inputs, bad \in 0..MaxAvailable : Deserialize0Begin(input, bad)
    \/ FirstPassParse
    \/ ResetBetweenPasses
    \/ SecondPassParse
    \/ Deserialize0Return
    \/ PastTheInput

\* The thread that called deserialize0 keeps running it.
FairnessParse ==
    /\ WF_vars(FirstPassParse)
    /\ WF_vars(ResetBetweenPasses)
    /\ WF_vars(SecondPassParse)
    /\ WF_vars(Deserialize0Return)

SpecParse ==
    Init /\ [][NextParse]_vars /\ FairnessParse

(* ------------------------------------------------------------------ *)
(* The key tool: keygen.                                                *)
(* ------------------------------------------------------------------ *)

\* The files of the directory the tool is run in.
KeyFiles ==
    {"priv.txt", "pub.txt", "other.txt"}

\* An option that is not on the command line.
NoArg ==
    "-"

\* No file of that name exists.
Absent ==
    [pair |-> 0, part |-> "none"]

\* A file written before the tool runs (Files.writeString of a test key).
Existing ==
    [pair |-> 1, part |-> "text"]

\* The command lines of keygen: --private-out-file, --public-out-file and
\* --overwrite-existing.  The two output files, when both are given, are
\* different files.
KeygenArgs ==
    {args \in [private : KeyFiles \cup {NoArg},
               public : KeyFiles \cup {NoArg},
               overwrite : BOOLEAN] :
        args.private = NoArg \/ args.private # args.public}

\* What the tool prints on stderr for an output file that exists and for a
\* required argument that is missing.
existsMessage(file) ==
    << "Invalid command line arguments: Output file '", file,
       "' already exists. No keys written. ",
       "If you want to overwrite existing files, specify --overwrite-existing.\n" >>

requiredMessage(option) ==
    << "Invalid command line arguments: Required argument '", option,
       "' must be provided\n" >>

NoMessage ==
    << >>

\* One run of the tool: what it leaves of the files and what it reports.
keygenRun(args, files, exitCode, stdErr, generated) ==
    tool' = [state |-> "ran", args |-> args, files |-> files,
             exitCode |-> exitCode, stdErr |-> stdErr,
             nextPair |-> tool.nextPair + (IF generated THEN 1 ELSE 0)]

\* keygen that checks each output file right before it writes it: the
\* private key is written before the public key file is looked at.
KeygenChecksAsItWrites(args) ==
    LET private == [pair |-> tool.nextPair, part |-> "private"]
        public == [pair |-> tool.nextPair, part |-> "public"]
    IN  /\ tool.state # "none"
        /\ tool.nextPair <= MaxKeyPairs + 1
        /\ IF args.private = NoArg
           THEN keygenRun(args, tool.files, 1,
                          requiredMessage("--private-out-file"), FALSE)
           ELSE IF args.public = NoArg
           THEN keygenRun(args, tool.files, 1,
                          requiredMessage("--public-out-file"), FALSE)
           ELSE IF ~args.overwrite /\ tool.files[args.private] # Absent
           THEN keygenRun(args, tool.files, 1,
                          existsMessage(args.private), FALSE)
           ELSE IF ~args.overwrite /\ tool.files[args.public] # Absent
           THEN keygenRun(args, [tool.files EXCEPT ![args.private] = private],
                          1, existsMessage(args.public), TRUE)
           ELSE keygenRun(args, [tool.files EXCEPT ![args.private] = private,
                                                   ![args.public] = public],
                          0, NoMessage, TRUE)
        /\ UNCHANGED << storeVars, genVars, readers, ret, calcVars, load >>

\* The keygen tool as its tests fix it.  A missing --private-out-file is
\* reported before a missing --public-out-file.  Without
\* --overwrite-existing an output file that exists ends the run with exit
\* code 1 and a message that names the file, before any key is written;
\* when both exist the tests do not say which is named.  Otherwise a fresh
\* key pair is written, the private key to one file and the public key to
\* the other, and the exit code is 0.
Keygen(args) ==
    LET private == [pair |-> tool.nextPair, part |-> "private"]
        public == [pair |-> tool.nextPair, part |-> "public"]
        existing == {f \in {args.private, args.public} : tool.files[f] # Absent}
    IN  /\ tool.state # "none"
        /\ tool.nextPair <= MaxKeyPairs + 1
        /\ IF args.private = NoArg
           THEN keygenRun(args, tool.files, 1,
                          requiredMessage("--private-out-file"), FALSE)
           ELSE IF args.public = NoArg
           THEN keygenRun(args, tool.files, 1,
                          requiredMessage("--public-out-file"), FALSE)
           ELSE IF ~args.overwrite /\ existing # {}
           THEN \E f \in existing :
                   keygenRun(args, tool.files, 1, existsMessage(f), FALSE)
           ELSE keygenRun(args, [tool.files EXCEPT ![args.private] = private,
                                                   ![args.public] = public],
                          0, NoMessage, TRUE)
        /\ UNCHANGED << storeVars, genVars, readers, ret, calcVars, load >>

\* The user writes a file (Files.writeString) or deletes one (Files.delete)
\* between two runs.
WriteFile(file) ==
    /\ tool.state # "none"
    /\ tool.files[file] # Existing
    /\ tool' = [tool EXCEPT !.state = "ready", !.files[file] = Existing]
    /\ UNCHANGED << storeVars, genVars, readers, ret, calcVars, load >>

DeleteFile(file) ==
    /\ tool.state # "none"
    /\ tool.files[file] # Absent
    /\ tool' = [tool EXCEPT !.state = "ready", !.files[file] = Absent]
    /\ UNCHANGED << storeVars, genVars, readers, ret, calcVars, load >>

\* The tool in a directory where any of the files may exist.
InitKeygen ==
    /\ InitStore(2 * EntrySize)
    /\ InitGen
    /\ ret = NoRet
    /\ calcIn = [op |-> "none"]
    /\ calcOut = [op |-> "none"]
    /\ load = NoLoad
    /\ \E files \in [KeyFiles -> {Absent, Existing}] :
          tool = [state |-> "ready", args |-> [private |-> NoArg,
                                              public |-> NoArg,
                                              overwrite |-> FALSE],
                  files |-> files, exitCode |-> 0, stdErr |-> NoMessage,
                  nextPair |-> 2]

NextKeygen ==
    \/ \E args \in KeygenArgs : Keygen(args)
    \/ \E file \in KeyFiles : WriteFile(file)
    \/ \E file \in KeyFiles : DeleteFile(file)

SpecKeygen ==
    InitKeygen /\ [][NextKeygen]_vars

(* ------------------------------------------------------------------ *)
(* The summary renderer: SlimeFiller with a matching-elements list.     *)
(* ------------------------------------------------------------------ *)

\* Elements of the largest collection rendered.
MaxElements ==
    3

\* The collections the filler visits.
CollectionKinds ==
    {"array", "weighted_set", "map"}

\* make_array, make_weighted_set and make_map: the n-th element added.
arrayElement(n) ==
    << "foo", "bar", "baz", "qux" >>[n]

weightedSetElement(n) ==
    [item |-> arrayElement(n), weight |-> 2 * n]

mapElement(n) ==
    [key |-> << "key1", "key2", "key3", "key4" >>[n],
     value |-> << "value1", "value2", "value3", "value4" >>[n]]

\* A collection of the given kind and size, in the order of its elements.
makeCollection(kind, size) ==
    [n \in 1..size |->
        IF kind = "array" THEN arrayElement(n)
        ELSE IF kind = "weighted_set" THEN weightedSetElement(n)
        ELSE mapElement(n)]

\* A matching-elements list: element indexes, counted from 0, ascending
\* and without repetition.
MatchingElements ==
    {m \in UNION {[1..len -> 0..MaxElements] : len \in 0..(MaxElements + 1)} :
        \A i \in 1..(Len(m) - 1) : m[i] < m[i + 1]}

\* What the inserter holds after the visit: nothing, or an array.
SlimeNull ==
    [type |-> "null"]

slimeArray(elements) ==
    [type |-> "array", elements |-> elements]

\* A filler that renders an index outside the collection as nothing and
\* goes on with the rest of the list.
insertFilteredSkipsOutside(collection, matching) ==
    LET inside == SelectSeq(matching, LAMBDA id : id < Len(collection))
    IN  IF inside = << >>
        THEN SlimeNull
        ELSE slimeArray([i \in 1..Len(inside) |-> collection[inside[i] + 1]])

\* SlimeFiller(inserter, matching_elems) visiting a collection, as
\* expect_insert_filtered fixes it: nothing is inserted for an empty list
\* and for a list with an index the collection does not have; otherwise
\* the element at each listed index is inserted, in the order of the list.
insertFiltered(collection, matching) ==
    IF \/ matching = << >>
       \/ \E i \in 1..Len(matching) : matching[i] >= Len(collection)
    THEN SlimeNull
    ELSE slimeArray([i \in 1..Len(matching) |-> collection[matching[i] + 1]])

\* One expect_insert_filtered: a filler over a fresh inserter visits the
\* collection.
InsertFiltered(kind, size, matching) ==
    /\ tool.state # "none"
    /\ tool' = [state |-> "filled", kind |-> kind,
                collection |-> makeCollection(kind, size),
                matching |-> matching,
                slime |-> insertFiltered(makeCollection(kind, size), matching)]
    /\ UNCHANGED << storeVars, genVars, readers, ret, calcVars, load >>

InitFiller ==
    /\ InitStore(2 * EntrySize)
    /\ InitGen
    /\ ret = NoRet
    /\ calcIn = [op |-> "none"]
    /\ calcOut = [op |-> "none"]
    /\ load = NoLoad
    /\ tool = [state |-> "empty", kind |-> "array", collection |-> << >>,
               matching |-> << >>, slime |-> SlimeNull]

NextFiller ==
    \/ \E kind \in CollectionKinds, size \in 1..MaxElements,
          matching \in MatchingElements : InsertFiltered(kind, size, matching)

SpecFiller ==
    InitFiller /\ [][NextFiller]_vars

(* ------------------------------------------------------------------ *)
(* The deploy client: FindApplicationPackage.                           *)
(* ------------------------------------------------------------------ *)

\* A path is the sequence of its elements; the empty path is Go's "".
EmptyPath ==
    << >>

\* The arguments given as zipOrDir: a directory and a zip file.
ZipOrDirs ==
    {<< "app" >>, << "app.zip" >>}

\* filepath.Join.
Join(dir, elements) ==
    dir \o elements

\* The paths FindApplicationPackage looks for below zipOrDir.
PackagePaths ==
    {<< "pom.xml" >>, << "target", "application.zip" >>,
     << "target", "application-test.zip" >>, << "src", "main", "application" >>,
     << "src", "test", "application" >>, << "services.xml" >>}

\* filepath.Ext: the suffix of the last element from its last dot on.
Ext(filename) ==
    IF filename = EmptyPath THEN ""
    ELSE LET last == filename[Len(filename)]
         IN  IF last \in {"app.zip", "application.zip", "application-test.zip"}
             THEN ".zip"
             ELSE IF last \in {"pom.xml", "services.xml"} THEN ".xml"
             ELSE ""

\* A package finder that takes no path for a zip file.
isZipNever(filename) ==
    FALSE

isZip(filename) ==
    Ext(filename) = ".zip"

\* util.PathExists on the disk the tool runs on.
PathExists(path) ==
    path \in tool.exists

\* ApplicationPackage{} and a nil error.
EmptyPackage ==
    [Path |-> EmptyPath, TestPath |-> EmptyPath]

NoError ==
    "nil"

found(path, testPath) ==
    [package |-> [Path |-> path, TestPath |-> testPath], err |-> NoError]

failed(message) ==
    [package |-> EmptyPackage, err |-> message]

\* FindApplicationPackage: what it returns for the disk as it is.
findApplicationPackage(zipOrDir, requirePackaging) ==
    LET zip == Join(zipOrDir, << "target", "application.zip" >>)
        testZip == Join(zipOrDir, << "target", "application-test.zip" >>)
        path == Join(zipOrDir, << "src", "main", "application" >>)
        testPath == Join(zipOrDir, << "src", "test", "application" >>)
        rest == IF PathExists(path)
                THEN IF PathExists(testPath)
                     THEN found(path, testPath)
                     ELSE found(path, EmptyPath)
                ELSE IF PathExists(Join(zipOrDir, << "services.xml" >>))
                THEN found(zipOrDir, EmptyPath)
                ELSE failed(<< "could not find an application package source in '",
                               zipOrDir, "'" >>)
    IN  IF isZip(zipOrDir)
        THEN found(zipOrDir, EmptyPath)
        ELSE IF PathExists(Join(zipOrDir, << "pom.xml" >>))
        THEN IF PathExists(zip)
             THEN IF PathExists(testZip)
                  THEN found(zip, testZip)
                  ELSE found(zip, EmptyPath)
             ELSE IF requirePackaging
             THEN failed("pom.xml exists but no target/application.zip. Run mvn package first")
             ELSE rest
        ELSE rest

\* One call of FindApplicationPackage.
FindApplicationPackage(zipOrDir, requirePackaging) ==
    /\ tool.state # "none"
    /\ tool' = [state |-> "returned", exists |-> tool.exists,
                zipOrDir |-> zipOrDir, requirePackaging |-> requirePackaging,
                result |-> findApplicationPackage(zipOrDir, requirePackaging)]
    /\ UNCHANGED << storeVars, genVars, readers, ret, calcVars, load >>

\* The disk holds any of the paths, below the directory and below the path
\* that ends in .zip.
InitFind ==
    /\ InitStore(2 * EntrySize)
    /\ InitGen
    /\ ret = NoRet
    /\ calcIn = [op |-> "none"]
    /\ calcOut = [op |-> "none"]
    /\ load = NoLoad
    /\ \E below \in SUBSET PackagePaths :
          tool = [state |-> "ready",
                  exists |-> {Join(dir, q) : dir \in ZipOrDirs, q \in below},
                  zipOrDir |-> EmptyPath, requirePackaging |-> FALSE,
                  result |-> found(EmptyPath, EmptyPath)]

NextFind ==
    \/ \E zipOrDir \in ZipOrDirs, requirePackaging \in BOOLEAN :
          FindApplicationPackage(zipOrDir, requirePackaging)

SpecFind ==
    InitFind /\ [][NextFind]_vars

(* ------------------------------------------------------------------ *)
(* Properties.                                                          *)
(* ------------------------------------------------------------------ *)

\* C8: growth bound.  Every size calcArraysToAlloc returns is at most
\* MaxArrays arrays, that is MaxArrays * ArraySize elements, whatever the
\* used, dead, needed, minimum and reserved elements are.
C8_GrowthBound ==
    (calcOut.op = "done" /\ ~calcOut.result.thrown)
        => /\ calcOut.result.arrays <= MaxArrays
           /\ calcOut.result.arrays * ArraySize <= maxSize

\* A call whose grown size exceeded the maximum and that returned the
\* maximum itself.
C8_Witness ==
    /\ calcOut.op = "done"
    /\ ~calcOut.result.thrown
    /\ calcFirstSize > maxSize
    /\ calcOut.result.arrays = MaxArrays

\* C9: capacity exhaustion is never silent.  When the grown size and the
\* just-enough size (used - dead + needed + reserved + slack, aligned) both
\* exceed the maximum, the call throws through failNewSize and yields no
\* size; a call that does return yields room for at least what was asked,
\* so neither 0 nor a too small size stands in for the failure.
C9_ExhaustionThrows ==
    calcOut.op = "done"
        => /\ (calcFirstSize > maxSize /\ calcJustEnoughSize > maxSize)
                => /\ calcOut.result.thrown
                   /\ "arrays" \notin DOMAIN calcOut.result
           /\ ~calcOut.result.thrown
                => calcOut.result.arrays * ArraySize >= calcRequested

\* A call that ran out of capacity and threw.
C9_Witness ==
    /\ calcOut.op = "done"
    /\ calcJustEnoughSize > maxSize
    /\ calcOut.result.thrown
    /\ calcOut.result.minNewSize = calcJustEnoughSize

\* The entries of a buffer.
entriesOf(mem, bufferId) ==
    {r \in DOMAIN mem : r[1] = bufferId}

\* C1: reclamation safety.  While a reader is registered, the ref it has
\* obtained still resolves, in memory that has not been freed, to the value
\* it read, whatever the writer has added, removed, compacted, resized,
\* transferred or trimmed in between.
C1_ReclamationSafety ==
    \A r \in Readers :
        (readers[r].registered /\ readers[r].ref # NullRef)
            => /\ readers[r].ref \in DOMAIN entries
               /\ states[readers[r].ref[1]].state # "FREE"
               /\ get(readers[r].ref) = readers[r].value

\* A registered reader holds a ref into a buffer that has been compacted
\* away, put on hold and tagged, in a later generation than the reader's.
C1_Witness ==
    \E r \in Readers :
        /\ readers[r].registered
        /\ readers[r].ref # NullRef
        /\ readers[r].ref \notin dict
        /\ currentGeneration > readers[r].gen
        /\ \E h \in bufferHoldList :
              /\ h.kind = "buffer"
              /\ h.bufferId = readers[r].ref[1]
              /\ h.gen # NoGen

\* C2: trimHoldLists(firstUsed) frees no dictionary node, entry or buffer
\* whose hold generation is at least firstUsed: over every step, each held
\* resource tagged with a generation >= the first-used generation is still
\* held afterwards, and the memory behind it is as it was (in a held buffer,
\* all but the entries that were themselves held under an older generation).
C2_TrimKeepsUsedGenerations ==
    [][ /\ \A h \in dictHoldList :
              (h.gen # NoGen /\ h.gen >= firstUsedGeneration)
                  => h \in dictHoldList'
        /\ \A h \in elemHoldList :
              (h.gen # NoGen /\ h.gen >= firstUsedGeneration)
                  => /\ h \in elemHoldList'
                     /\ h.ref \in DOMAIN entries'
                     /\ entries'[h.ref] = entries[h.ref]
        /\ \A h \in bufferHoldList :
              (h.gen # NoGen /\ h.gen >= firstUsedGeneration)
                  => /\ h \in bufferHoldList'
                     /\ h.kind = "buffer"
                          => /\ states'[h.bufferId].state = "HOLD"
                             /\ \A r \in entriesOf(entries, h.bufferId) :
                                   \/ /\ r \in DOMAIN entries'
                                      /\ entries'[r] = entries[r]
                                   \/ \E e \in elemHoldList :
                                         /\ e.ref = r
                                         /\ e.gen # NoGen
                                         /\ e.gen < firstUsedGeneration
      ]_vars

\* A trim has freed an entry (its buffer counts it dead) and has left on hold
\* an entry tagged with the first-used generation or a later one.
C2_Witness ==
    /\ \E b \in BufferIds : states[b].deadElems > getReservedElements(b)
    /\ \E h \in elemHoldList :
          /\ h.gen # NoGen
          /\ h.gen >= firstUsedGeneration
          /\ h.ref \in DOMAIN entries

C4_DedupInvariant ==
    /\ \A r1, r2 \in dict : get(r1) = get(r2) => r1 = r2
    /\ ret.op = "add"
          => /\ ret.ref \in dict
             /\ ret.ref # NullRef
             /\ get(ret.ref) = ret.value

\* What one add returns and changes, by whether the value was stored.
C4_AddResult ==
    ret'.op = "add"
        => IF \E r \in dict : get(r) = ret'.value
           THEN /\ ~ret'.isNew
                /\ ret'.ref \in dict
                /\ get(ret'.ref) = ret'.value
                /\ dict' = dict
                /\ DOMAIN entries' = DOMAIN entries
           ELSE /\ ret'.isNew
                /\ ret'.ref \notin DOMAIN entries
                /\ ret'.ref \in DOMAIN entries'
                /\ dict' = dict \cup {ret'.ref}

\* C4: deduplication.  The dictionary never holds two refs to equal values;
\* an add of a value that is stored returns the ref the dictionary already
\* held, with isNew false and without allocating; an add of an absent value
\* returns a ref to a newly allocated entry, now in the dictionary, with
\* isNew true.
C4_Deduplication ==
    []C4_DedupInvariant /\ [][C4_AddResult]_vars

\* Two distinct values are stored and the last add returned the existing ref
\* of one of them.
C4_Witness ==
    /\ ret.op = "add"
    /\ ~ret.isNew
    /\ Cardinality(dict) = 2
    /\ Cardinality({get(r) : r \in dict}) = 2

\* C5: the refcount of every stored value is the number of adds of the value
\* minus the number of removes of its ref, a value without adds left is not
\* stored, and the first add of a value leaves its refcount at 1.
C5_RefCountIsAddsMinusRemoves ==
    /\ \A v \in Values :
          IF find(v) # NullRef
          THEN entries[find(v)].refCount = netAdds[v]
          ELSE netAdds[v] = 0
    /\ (ret.op = "add" /\ ret.isNew) => entries[ret.ref].refCount = 1

\* A value has been added twice while another was added and removed.
C5_Witness ==
    \E v, w \in Values :
        /\ v # w
        /\ netAdds[v] = 2
        /\ find(v) # NullRef
        /\ netAdds[w] = 0
        /\ \E h \in elemHoldList :
              h.ref \in DOMAIN entries /\ entries[h.ref].value = w

\* find reports a value exactly while it has adds left, and get of the ref
\* found gives the value back, from an ACTIVE buffer.
C6_FoundWhileReferenced ==
    \A v \in Values :
        /\ (find(v) # NullRef) <=> (netAdds[v] > 0)
        /\ find(v) # NullRef
              => /\ find(v) \in DOMAIN entries
                 /\ get(find(v)) = v
                 /\ states[find(v)[1]].state = "ACTIVE"

\* What a step that takes one reference of a value away does to find.
C6_RemoveStep ==
    \A v \in Values :
        netAdds'[v] < netAdds[v]
            => IF netAdds'[v] > 0
               THEN /\ find(v)' = find(v)
                    /\ entries'[find(v)].value = v
               ELSE find(v)' = NullRef

\* C6: a value is found exactly while its adds outnumber its removes, and
\* get of the ref found returns it; a remove that leaves references changes
\* neither the ref nor the value behind it, and the remove of the last
\* reference makes find report the value absent.
C6_FindAndGet ==
    []C6_FoundWhileReferenced /\ [][C6_RemoveStep]_vars

\* One value has lost its last reference and is not found, while another
\* that has lost one of two references is still found.
C6_Witness ==
    \E v, w \in Values :
        /\ v # w
        /\ netAdds[v] = 0
        /\ find(v) = NullRef
        /\ \E h \in elemHoldList :
              h.ref \in DOMAIN entries /\ entries[h.ref].value = v
        /\ find(w) # NullRef
        /\ entries[find(w)].refCount = 1

\* What a compaction must have preserved: every value the dictionary reached
\* at preCompact is reached, in the given dictionary and memory, through the
\* ref the relocation map gives for its old ref, with the refcount it had.
contentPreserved(d, mem) ==
    \A v \in DOMAIN preCompactDict :
        /\ preCompactDict[v].ref \in DOMAIN old2New
        /\ LET newRef == old2New[preCompactDict[v].ref]
           IN  /\ newRef \in d
               /\ newRef \in DOMAIN mem
               /\ mem[newRef].value = v
               /\ mem[newRef].refCount = preCompactDict[v].refCount

\* C7: compaction preserves content.  Once the entries are relocated, and
\* still when postCompact has run, every value reachable through the
\* dictionary before the compaction is reachable through its translated ref
\* with the same refcount.
C7_CompactionPreservesContent ==
    /\ [](phase = "relocated" => contentPreserved(dict, entries))
    /\ [][(phase = "relocated" /\ phase' = "idle")
             => contentPreserved(dict', entries')]_vars

\* A compaction has relocated two values, one of them referenced twice.
C7_Witness ==
    /\ phase = "relocated"
    /\ Cardinality(DOMAIN preCompactDict) = 2
    /\ \E v \in DOMAIN preCompactDict : preCompactDict[v].refCount = 2
    /\ \A v \in DOMAIN preCompactDict :
          old2New[preCompactDict[v].ref] # preCompactDict[v].ref

\* C10: a capacity failure in preCompact leaves the active buffer, the buffer
\* states, the type's minimum size needed and dead elements, and the list of
\* buffers to hold as they were before the call.
C10_FailedPreCompactChangesNothing ==
    [][(ret'.op = "preCompact" /\ ret'.result = "thrown")
          => /\ activeBufferId' = activeBufferId
             /\ states' = states
             /\ type'.minSizeNeeded = type.minSizeNeeded
             /\ type'.deadElems = type.deadElems
             /\ toHoldBuffers' = toHoldBuffers
      ]_vars

(* ------------------------------------------------------------------ *)
(* Sizing policy.                                                       *)
(* ------------------------------------------------------------------ *)

\* The elements the drawn call has to find room for before any growth: the
\* live elements plus the larger of the size asked for and the minimum size.
calcLive ==
    calcIn.usedElems - calcIn.deadElems
        + Max(calcIn.sizeNeeded, calcIn.minSizeNeeded)

\* The unaligned size the first attempt aims at: the live size, one and a
\* half times it (truncated) when the store is not empty, plus the reserved
\* elements.
calcTarget ==
    (IF calcIn.usedElems # 0 THEN (3 * calcLive) \div 2 ELSE calcLive)
        + getReservedElements(calcIn.bufferId)

\* n is the least multiple of the alignment unit that is at least size.
leastAligned(n, size) ==
    /\ n % ArraySize = 0
    /\ n >= size
    /\ n - ArraySize < size

\* The growth policy as the specification words it, with the minimum size
\* compared against the grown size and the growth applied to every store:
\* max(minSizeNeeded, (used - dead + sizeNeeded) * 1.5) + reserved.  The
\* product is taken rounded down or rounded up.
statedTargets ==
    LET grown == 3 * (calcIn.usedElems - calcIn.deadElems + calcIn.sizeNeeded)
    IN  {Max(calcIn.minSizeNeeded, grown \div 2)
            + getReservedElements(calcIn.bufferId),
         Max(calcIn.minSizeNeeded, (grown + 1) \div 2)
            + getReservedElements(calcIn.bufferId)}

\* C11 as stated: whenever the result fits within the maximum, the size
\* returned is max(minSizeNeeded, (used - dead + sizeNeeded) * 1.5) +
\* reserved rounded up to the alignment unit, an empty store included.
C11_GrowthPolicyAsStated ==
    (/\ calcOut.op = "done"
     /\ ~calcOut.result.thrown
     /\ calcTarget <= maxSize
     /\ \A t \in statedTargets : t <= maxSize)
        => \E t \in statedTargets :
              leastAligned(calcOut.result.arrays * ArraySize, t)

\* C11: growth policy.  Whenever the size fits within the maximum,
\* calcArraysToAlloc returns the least whole number of arrays that holds
\* (used - dead + max(sizeNeeded, minSizeNeeded)) * g + reserved elements,
\* where g is 1.5 (the product truncated) for a store with used elements
\* and 1 for an empty store.
C11_GrowthPolicy ==
    (calcOut.op = "done" /\ calcTarget <= maxSize)
        => /\ ~calcOut.result.thrown
           /\ leastAligned(calcOut.result.arrays * ArraySize, calcTarget)

\* A call for an empty store and a call for a store in use whose minimum
\* size exceeds the size asked for, both within the maximum.
C11_Witness ==
    /\ calcOut.op = "done"
    /\ calcTarget <= maxSize
    /\ calcLive > 0
    /\ \/ calcIn.usedElems = 0
       \/ /\ calcIn.usedElems > calcIn.deadElems
          /\ calcIn.minSizeNeeded > calcIn.sizeNeeded
          /\ calcIn.sizeNeeded > 0

\* The unaligned size the second attempt aims at: the live size, the
\* reserved elements and the slack.
calcRetryTarget ==
    calcLive + getReservedElements(calcIn.bufferId) + Slack

\* A size rounded up to the next multiple of the alignment unit.
roundedUp(size) ==
    size + ((ArraySize - (size % ArraySize)) % ArraySize)

\* C25 as stated: when the grown size exceeds the maximum, the size of the
\* retry is smaller than the first size, and the call succeeds when the
\* retry size is within the maximum.
C25_RetryIsSmaller ==
    (calcOut.op = "done" /\ calcTarget > maxSize)
        => /\ roundedUp(calcRetryTarget) < roundedUp(calcTarget)
           /\ roundedUp(calcRetryTarget) <= maxSize => ~calcOut.result.thrown

\* C25: when the first size exceeds the maximum, calcArraysToAlloc makes
\* one more attempt, with used - dead + sizeNeeded + reserved + 1000000
\* elements rounded up to the alignment unit: within the maximum it returns
\* the maximum number of arrays, beyond it the call throws with that size
\* as the minimum new size.  For a store with used elements the size of the
\* retry is smaller than the first size; for an empty store, whose first
\* size is not grown, it is larger and the call throws.
C25_RetryOnce ==
    (calcOut.op = "done" /\ calcTarget > maxSize)
        => /\ calcIn.usedElems # 0
                => roundedUp(calcRetryTarget) < roundedUp(calcTarget)
           /\ calcIn.usedElems = 0
                => /\ roundedUp(calcRetryTarget) > roundedUp(calcTarget)
                   /\ calcOut.result.thrown
           /\ IF roundedUp(calcRetryTarget) <= maxSize
              THEN /\ ~calcOut.result.thrown
                   /\ calcOut.result.arrays = MaxArrays
              ELSE /\ calcOut.result.thrown
                   /\ calcOut.result.minNewSize = roundedUp(calcRetryTarget)
                   /\ calcOut.result.maxSize = maxSize

\* A call for a store in use whose grown size is beyond the maximum and
\* whose retry size is within it.
C25_Witness ==
    /\ calcOut.op = "done"
    /\ calcIn.usedElems # 0
    /\ calcIn.sizeNeeded = 3000000
    /\ calcTarget > maxSize
    /\ roundedUp(calcRetryTarget) <= maxSize
    /\ ~calcOut.result.thrown

\* The capacity, in elements, the drawn call returned.
calcCapacity ==
    calcOut.result.arrays * ArraySize

\* C26 as stated: whenever the call succeeds for a store with used
\* elements, the capacity returned is at least one and a half times the
\* live usage (used - dead), the product taken rounded down to a whole
\* element, and a whole multiple of the array size, whether the first size
\* or the retry size was taken.
C26_GrowthOneAndAHalf ==
    (calcOut.op = "done" /\ ~calcOut.result.thrown /\ calcIn.usedElems # 0)
        => /\ 2 * calcCapacity >= 3 * (calcIn.usedElems - calcIn.deadElems) - 1
           /\ calcCapacity % ArraySize = 0

\* C26: whenever the call succeeds for a store with used elements, the
\* capacity returned is a whole number of arrays that holds the live usage,
\* the size needed and the reserved elements.  When the grown size is
\* within the maximum the capacity is at least one and a half times the
\* live usage, rounded down to a whole element; when the retry size was
\* taken the capacity is the maximum, which holds the live usage and the
\* slack but need not reach one and a half times the live usage.
C26_GrowthAtLeastLive ==
    (calcOut.op = "done" /\ ~calcOut.result.thrown /\ calcIn.usedElems # 0)
        => /\ calcCapacity % ArraySize = 0
           /\ calcCapacity >= calcLive + getReservedElements(calcIn.bufferId)
           /\ calcTarget <= maxSize
                => /\ calcCapacity >= calcTarget
                   /\ 2 * calcCapacity
                         >= 3 * (calcIn.usedElems - calcIn.deadElems) - 1
           /\ calcTarget > maxSize
                => /\ calcCapacity = maxSize
                   /\ calcCapacity
                         >= calcIn.usedElems - calcIn.deadElems + Slack

\* A call that grew a store in use, within the maximum, to exactly one and
\* a half times an odd live usage rounded down.
C26_Witness ==
    /\ calcOut.op = "done"
    /\ ~calcOut.result.thrown
    /\ calcIn.usedElems = ArraySize
    /\ calcIn.deadElems = 5
    /\ calcLive = 11
    /\ calcCapacity = 16

(* ------------------------------------------------------------------ *)
(* preCompact.                                                          *)
(* ------------------------------------------------------------------ *)

\* Some buffer is in state FREE.
someBufferFree ==
    \E b \in BufferIds : states[b].state = "FREE"

\* The elements of the active buffer that are in use and not dead.
liveElems ==
    states[activeBufferId].usedElems - states[activeBufferId].deadElems

\* Neither the grown size nor the just-enough size of a replacement buffer
\* for the live elements and bytesNeeded more fits within the maximum,
\* whichever FREE buffer is taken.  The maximum is a whole number of arrays,
\* so a size exceeds it exactly when the aligned size does.
replacementExhausted(bytesNeeded) ==
    \A b \in BufferIds :
        states[b].state = "FREE"
            => /\ (3 * (liveElems + bytesNeeded)) \div 2
                     + getReservedElements(b) > maxSize
               /\ liveElems + bytesNeeded + getReservedElements(b) + Slack
                     > maxSize

\* C12 as stated: preCompact returns false exactly when no buffer is FREE and
\* returns true, having begun the compaction, in every other state.
C12_PreCompactFalseIffNoFree ==
    [][ret'.op = "preCompact"
          => /\ (ret'.result = "false") <=> ~someBufferFree
             /\ someBufferFree
                   => /\ ret'.result = "true"
                      /\ phase' = "compacting"
      ]_vars

\* C12: preCompact(bytesNeeded) returns false, changing nothing, exactly when
\* no buffer is FREE.  When a buffer is FREE it returns true, with a FREE
\* buffer made the active one and the old active buffer on the list of
\* buffers to hold, unless the replacement buffer cannot be sized within the
\* maximum, in which case it throws and no compaction is begun.
C12_PreCompactResult ==
    [][\A bytesNeeded \in SizesNeeded :
          PreCompact(bytesNeeded)
              => /\ (ret'.result = "false") <=> ~someBufferFree
                 /\ (ret'.result = "thrown")
                        <=> (someBufferFree /\ replacementExhausted(bytesNeeded))
                 /\ (ret'.result = "true")
                        <=> (someBufferFree /\ ~replacementExhausted(bytesNeeded))
                 /\ ret'.result = "false"
                        => UNCHANGED << states, activeBufferId, type,
                                        toHoldBuffers, phase >>
                 /\ ret'.result = "thrown" => phase' = "idle"
                 /\ ret'.result = "true"
                        => /\ phase' = "compacting"
                           /\ states[activeBufferId'].state = "FREE"
                           /\ states'[activeBufferId'].state = "ACTIVE"
                           /\ activeBufferId \in Range(toHoldBuffers')
      ]_vars

\* preCompact has returned false: one buffer is active and the other is
\* still held.
C12_Witness ==
    /\ ret.op = "preCompact"
    /\ ret.result = "false"
    /\ \E b \in BufferIds : states[b].state = "HOLD"

\* C13: when preCompact(bytesNeeded) returns true, the buffer made active
\* has room for the live elements of the old active buffer (used minus
\* dead), bytesNeeded more and its own reserved elements, whether its size is
\* the grown size or the maximum size.
C13_ReplacementCapacity ==
    [][\A bytesNeeded \in SizesNeeded :
          (PreCompact(bytesNeeded) /\ ret'.result = "true")
              => states'[activeBufferId'].allocElems
                    >= liveElems + bytesNeeded
                          + getReservedElements(activeBufferId')
      ]_vars

\* preCompact has returned true with a replacement buffer of the maximum
\* size, the grown size having exceeded it.
C13_Witness ==
    /\ ret.op = "preCompact"
    /\ ret.result = "true"
    /\ phase = "compacting"
    /\ states[activeBufferId].allocElems = maxSize
    /\ type.minSizeNeeded = 3000000

(* ------------------------------------------------------------------ *)
(* Hold lists, reset and bulk load.                                     *)
(* ------------------------------------------------------------------ *)

\* A resource that is on a hold list before the step has been freed by it:
\* a held entry whose memory is gone, a held buffer that is no longer held,
\* or a retired dictionary node that has left the dictionary's hold list.
heldResourceFreed ==
    \/ \E h \in elemHoldList : h.ref \notin DOMAIN entries'
    \/ \E h \in bufferHoldList :
          /\ h.kind = "buffer"
          /\ states[h.bufferId].state = "HOLD"
          /\ states'[h.bufferId].state # "HOLD"
    \/ \E h \in dictHoldList : h.ref \notin {x.ref : x \in dictHoldList'}

\* C14: a resource placed on a hold list is physically freed only by
\* trimHoldLists; no step of add, remove, transferHoldLists, reset or
\* deserialize frees a held resource.
C14_OnlyTrimFrees ==
    [][heldResourceFreed => TrimHoldLists(firstUsedGeneration)]_vars

\* C18: after deserialize has built the dictionary and fixupRefCounts has
\* returned for a history as long as the dictionary, the i-th entry in
\* ascending dictionary order, which is the i-th entry deserialized, has
\* reference count hist[i].
C18_FixupAssignsHistory ==
    [][\A hist \in Histories :
          (/\ FixupRefCounts(hist)
           /\ Len(hist) = Cardinality(dict)
           /\ ret'.result = "returned")
              => \A i \in 1..Len(hist) :
                    /\ load.idx[i] \in DOMAIN entries'
                    /\ \A j \in 1..Len(hist) :
                          i < j => get(load.idx[i]) < get(load.idx[j])
                    /\ entries'[load.idx[i]].refCount = hist[i]
      ]_vars

\* fixupRefCounts has returned after giving two entries different counts,
\* one of them 0.
C18_Witness ==
    /\ ret.op = "fixupRefCounts"
    /\ ret.result = "returned"
    /\ Len(load.idx) = 2
    /\ entries[load.idx[1]].refCount = 0
    /\ entries[load.idx[2]].refCount = 2

\* C19: fixupRefCounts fails an assertion, and does not return, whenever the
\* number of dictionary entries differs from the length of the history, an
\* empty history against a dictionary with entries included.
C19_MismatchAsserts ==
    [][\A hist \in Histories :
          (FixupRefCounts(hist) /\ Len(hist) # Cardinality(dict))
              => ret'.result = "aborted"
      ]_vars

\* C20: after fixupRefCounts returns, no entry with reference count 0 is
\* left in the dictionary, and every entry of the store with reference count
\* 0 has been handed to the store for release, whatever the history.
C20_NoUnusedLeft ==
    [][\A hist \in Histories :
          (FixupRefCounts(hist) /\ ret'.result = "returned")
              => /\ \A x \in dict' : entries'[x].refCount > 0
                 /\ \A x \in DOMAIN entries' :
                       entries'[x].refCount = 0
                           => x \in {h.ref : h \in elemHoldList'}
      ]_vars

\* C21: when the parse of a record returns a negative size, deserialize
\* returns that negative size and the load stops there: no record after it
\* is parsed, in the sizing pass or in the writing pass, and the tree is
\* neither built from the index vector nor assigned.
C21_ParseErrorAbortsLoad ==
    [][\A src \in Sources, bad \in 1..NumValues, pass \in 1..2,
          err \in ParseErrors :
          Deserialize(src, bad, pass, err)
              => /\ ret'.result = err
                 /\ load'.calls1 + load'.calls2
                       = (IF pass = 1 THEN bad ELSE Len(src) + bad)
                 /\ ~load'.assigned
                 /\ dict' \cap Range(load'.idx) = {}
                 /\ pass = 1 => dict' = dict
      ]_vars

\* The writing pass met a record it could not parse, the second of two,
\* after the store was reset and the first entry written.
C21_Witness ==
    /\ ret.op = "deserialize"
    /\ ret.result = -2
    /\ load.state = "failed"
    /\ load.didReset
    /\ load.calls1 = 2
    /\ load.calls2 = 2
    /\ Len(load.idx) = 1
    /\ load.idx[1] \in DOMAIN entries

(* ------------------------------------------------------------------ *)
(* Trimming.                                                            *)
(* ------------------------------------------------------------------ *)

\* The items of a hold list tagged with a generation below firstUsed.
taggedBelow(holdList, firstUsed) ==
    {h \in holdList : h.gen # NoGen /\ h.gen < firstUsed}

\* C15: after trimHoldLists(firstUsed) returns, neither the dictionary's
\* hold list nor the data store's hold lists contain a resource tagged with
\* a generation below firstUsed, and every such resource has been freed by
\* the call: the entry is gone from memory, the buffer is FREE.
C15_TrimFreesAllBelow ==
    [][TrimHoldLists(firstUsedGeneration)
          => /\ taggedBelow(dictHoldList', firstUsedGeneration) = {}
             /\ taggedBelow(elemHoldList', firstUsedGeneration) = {}
             /\ taggedBelow(bufferHoldList', firstUsedGeneration) = {}
             /\ \A h \in taggedBelow(elemHoldList, firstUsedGeneration) :
                   h.ref \notin DOMAIN entries'
             /\ \A h \in taggedBelow(bufferHoldList, firstUsedGeneration) :
                   h.kind = "buffer" => states'[h.bufferId].state = "FREE"
             /\ \A h \in taggedBelow(dictHoldList, firstUsedGeneration) :
                   h \notin dictHoldList'
      ]_vars

\* A trim has freed the first buffer, held since a compaction, and the hold
\* lists keep a dictionary node and an entry of the first used generation.
C15_Witness ==
    /\ states[0].state = "FREE"
    /\ firstUsedGeneration = 1
    /\ \E h \in dictHoldList : h.gen = 1
    /\ \E h \in elemHoldList : h.gen = 1 /\ h.ref \in DOMAIN entries

\* The ref a reader has obtained still resolves, in memory that has not been
\* freed, to the value the reader read.
readerIntact(r) ==
    /\ readers[r].ref \in DOMAIN entries
    /\ states[readers[r].ref[1]].state # "FREE"
    /\ get(readers[r].ref) = readers[r].value

\* C16 as stated: while a reader registered at generation G is registered,
\* a call trimHoldLists(g) with g > G leaves every entry the reader has read
\* intact and readable.
C16_TrimPastReaderKeepsEntries ==
    [][\A g \in Generations : \A r \in Readers :
          (/\ TrimHoldLists(g)
           /\ readers[r].registered
           /\ readers[r].ref # NullRef
           /\ readerIntact(r)
           /\ g > readers[r].gen)
              => readerIntact(r)'
      ]_vars

\* C16: while a reader registered at generation G is registered, the first
\* used generation does not exceed G, and a call trimHoldLists(g) with
\* g <= G, made after removes and a compaction by the writer, leaves every
\* entry the reader has read intact and readable.
C16_TrimUpToReaderKeepsEntries ==
    /\ [](\A r \in Readers :
            readers[r].registered => firstUsedGeneration <= readers[r].gen)
    /\ [][\A g \in Generations : \A r \in Readers :
            (/\ TrimHoldLists(g)
             /\ readers[r].registered
             /\ readers[r].ref # NullRef
             /\ readerIntact(r)
             /\ g <= readers[r].gen)
                => readerIntact(r)'
        ]_vars

\* A reader registered at generation 1 has read an entry that was removed
\* and tagged with generation 1 afterwards; a trim has freed an older entry
\* of the same buffer and left the reader's.
C16_Witness ==
    \E r \in Readers :
        /\ readers[r].registered
        /\ readers[r].gen = 1
        /\ readers[r].ref # NullRef
        /\ readerIntact(r)
        /\ [ref |-> readers[r].ref, gen |-> 1] \in elemHoldList
        /\ states[readers[r].ref[1]].deadElems
              > getReservedElements(readers[r].ref[1])

\* The address space in use: used elements that are not dead.
usage(addressSpace) ==
    addressSpace.used - addressSpace.dead

\* C17 as stated: the trimHoldLists call that reclaims retired entries and
\* buffers shows as a drop in the usage getAddressSpaceUsage reports.
C17_ReclaimDropsUsage ==
    [][(/\ TrimHoldLists(firstUsedGeneration)
        /\ \/ taggedBelow(elemHoldList, firstUsedGeneration) # {}
           \/ taggedBelow(bufferHoldList, firstUsedGeneration) # {})
          => usage(getAddressSpaceUsage') < usage(getAddressSpaceUsage)
      ]_vars

\* C17: once the first used generation has passed the generation a retired
\* entry or buffer is tagged with, the next trimHoldLists call reclaims it:
\* the entry is gone from memory and the buffer is FREE with nothing in it.
\* The usage getAddressSpaceUsage reports drops by the size of the reclaimed
\* entries of the active buffer; reclaimed buffers and the entries in them
\* do not change it.
C17_ReclaimAndUsage ==
    [][TrimHoldLists(firstUsedGeneration)
          => LET elems == taggedBelow(elemHoldList, firstUsedGeneration)
                 bufs == {h.bufferId :
                            h \in {x \in taggedBelow(bufferHoldList,
                                                     firstUsedGeneration) :
                                      x.kind = "buffer"}}
                 inActive == {h.ref : h \in {x \in elems :
                                                x.ref[1] = activeBufferId}}
             IN  /\ \A h \in elems : h.ref \notin DOMAIN entries'
                 /\ \A b \in bufs :
                       /\ states'[b].state = "FREE"
                       /\ entriesOf(entries', b) = {}
                 /\ getAddressSpaceUsage'.used = getAddressSpaceUsage.used
                 /\ usage(getAddressSpaceUsage')
                       = usage(getAddressSpaceUsage)
                            - EntrySize * Cardinality(inActive)
      ]_vars

\* No reader is registered and a trim has reclaimed an entry of the active
\* buffer, which now counts as dead.
C17_Witness ==
    /\ \A r \in Readers : ~readers[r].registered
    /\ firstUsedGeneration = 1
    /\ getAddressSpaceUsage.dead > getReservedElements(activeBufferId)
    /\ Cardinality(entriesOf(entries, activeBufferId)) * EntrySize
          < getAddressSpaceUsage.used - getReservedElements(activeBufferId)

(* ------------------------------------------------------------------ *)
(* The compaction window.                                               *)
(* ------------------------------------------------------------------ *)

\* The buffers a step puts on hold.
newlyHeld ==
    {b \in BufferIds : states[b].state # "HOLD" /\ states'[b].state = "HOLD"}

\* The hold-list item of a held buffer.
holdItemOf(b) ==
    CHOOSE h \in bufferHoldList : h.kind = "buffer" /\ h.bufferId = b

inCompaction ==
    phase \in {"compacting", "relocated"}

\* C23: between a preCompact that returned true and its postCompact the
\* buffers being compacted are the buffers that were active before, the
\* active buffer is a fresh one that is not among them, every entry
\* allocated goes to the active buffer, and a buffer being compacted gets
\* no write: its used elements stay as they are, no entry appears in it and
\* the entries in it keep their values and reference counts.
C23_CompactedBuffersUntouched ==
    /\ [](inCompaction
            => /\ toHoldBuffers # << >>
               /\ states[activeBufferId].state = "ACTIVE"
               /\ activeBufferId \notin Range(toHoldBuffers)
               /\ Range(toHoldBuffers)
                     = {b \in BufferIds :
                           states[b].state = "ACTIVE" /\ b # activeBufferId})
    /\ [][inCompaction
             => /\ \A x \in (DOMAIN entries') \ (DOMAIN entries) :
                      x[1] = activeBufferId /\ x[1] \notin Range(toHoldBuffers)
                /\ \A b \in Range(toHoldBuffers) :
                      /\ states'[b].usedElems = states[b].usedElems
                      /\ \A x \in entriesOf(entries', b) :
                            x \in DOMAIN entries /\ entries'[x] = entries[x]
         ]_vars

\* Two entries have been relocated into the fresh buffer and the buffer
\* they come from still holds both.
C23_Witness ==
    /\ phase = "relocated"
    /\ Cardinality(DOMAIN old2New) = 2
    /\ \A x \in DOMAIN old2New :
          /\ x \in DOMAIN entries
          /\ old2New[x] \in DOMAIN entries
          /\ old2New[x][1] = activeBufferId
          /\ x[1] \in Range(toHoldBuffers)

(* ------------------------------------------------------------------ *)
(* Resizing in place.                                                   *)
(* ------------------------------------------------------------------ *)

\* C24: a fallbackResize(bytesNeeded) that returns has grown the active
\* buffer in place and flagged it for compaction: the active buffer is the
\* same buffer, still active and with the same used elements, its memory
\* has grown, every entry that was stored resolves to the same value and
\* reference count under the same ref, the buffer has room for at least
\* bytesNeeded more elements, and the type's want-compact flag is set.
C24_FallbackResizeInPlace ==
    [][\A bytesNeeded \in SizesNeeded :
          (FallbackResize(bytesNeeded) /\ ret'.result = "done")
              => /\ activeBufferId' = activeBufferId
                 /\ states'[activeBufferId].state = "ACTIVE"
                 /\ states'[activeBufferId].usedElems
                       = states[activeBufferId].usedElems
                 /\ states'[activeBufferId].allocElems
                       > states[activeBufferId].allocElems
                 /\ \A x \in DOMAIN entries :
                       x \in DOMAIN entries' /\ entries'[x] = entries[x]
                 /\ dict' = dict
                 /\ states'[activeBufferId].allocElems
                       - states'[activeBufferId].usedElems >= bytesNeeded
                 /\ type'.wantCompact
      ]_vars

\* A buffer with an entry in it has been resized for 3000000 more elements.
C24_Witness ==
    /\ ret.op = "fallbackResize"
    /\ ret.result = "done"
    /\ type.wantCompact
    /\ type.minSizeNeeded = 3000000
    /\ getRemaining >= 3000000
    /\ \E x \in dict : x[1] = activeBufferId

(* ------------------------------------------------------------------ *)
(* Dead elements after a compaction.                                    *)
(* ------------------------------------------------------------------ *)

\* C27 as stated: when postCompact ends a compaction, the dead-element
\* count getAddressSpaceUsage reports for the active buffer is zero.
C27_NoDeadAfterCompaction ==
    [][PostCompact => getAddressSpaceUsage'.dead = 0]_vars

\* C27: when postCompact ends a compaction, the dead elements of the active
\* buffer are its reserved elements and nothing else: zero for a buffer
\* other than buffer 0, the reserved array for buffer 0.  Every other used
\* element belongs to an entry the dictionary reaches.
C27_OnlyReservedDeadAfterCompaction ==
    [][PostCompact
          => /\ getAddressSpaceUsage'.dead = getReservedElements(activeBufferId')
             /\ activeBufferId' # 0 => getAddressSpaceUsage'.dead = 0
             /\ getAddressSpaceUsage'.used - getAddressSpaceUsage'.dead
                   = EntrySize * Cardinality(dict')
             /\ \A x \in dict' : x[1] = activeBufferId'
      ]_vars

\* The second compaction has ended: buffer 0 is the active buffer again,
\* with an entry in it, and the buffer it replaced is on hold.
C27_Witness ==
    /\ compactionCount = 2
    /\ phase = "idle"
    /\ activeBufferId = 0
    /\ states[1].state = "HOLD"
    /\ states[0].deadElems = ArraySize
    /\ dict # {}

(* ------------------------------------------------------------------ *)
(* Generations.                                                         *)
(* ------------------------------------------------------------------ *)

\* C28: generation monotonicity.  No step decreases firstUsedGeneration, it
\* never exceeds currentGeneration, and it never exceeds the generation a
\* registered reader has registered under.
C28_GenerationMonotonicity ==
    /\ [](firstUsedGeneration <= currentGeneration)
    /\ [](\A r \in Readers :
             readers[r].registered => firstUsedGeneration <= readers[r].gen)
    /\ [][firstUsedGeneration' >= firstUsedGeneration]_vars

\* The first used generation has advanced to generation 1 and a reader has
\* registered under that generation.
C28_Witness ==
    /\ currentGeneration = 1
    /\ firstUsedGeneration = 1
    /\ \E r \in Readers : readers[r].registered /\ readers[r].gen = 1

(* ------------------------------------------------------------------ *)
(* The null ref.                                                        *)
(* ------------------------------------------------------------------ *)

\* C29: the null ref never names a stored entry.  No entry lies in the
\* reserved elements at the start of a buffer, the null ref is neither in
\* memory nor a key of the dictionary, and the ref an add has just returned
\* is not the null ref and resolves to the one entry of the value added,
\* which the dictionary reaches.  Every entry in memory is live (a key of
\* the dictionary), held (on the hold list) or the old copy of an entry in
\* a buffer that a compaction is retiring or has retired.
C29_NullRefNamesNoEntry ==
    /\ NullRef \notin DOMAIN entries
    /\ NullRef \notin dict
    /\ \A x \in DOMAIN entries : x[2] >= getReservedElements(x[1])
    /\ ret.op = "add"
          => /\ ret.ref # NullRef
             /\ ret.ref \in DOMAIN entries
             /\ ret.ref \in dict
             /\ get(ret.ref) = ret.value
             /\ \A x \in dict : get(x) = ret.value => x = ret.ref
    /\ \A x \in DOMAIN entries :
          \/ x \in dict
          \/ x \in {h.ref : h \in elemHoldList}
          \/ inCompaction /\ x[1] \in Range(toHoldBuffers)
          \/ states[x[1]].state = "HOLD"

\* After a reset following a second compaction, which made buffer 0 the
\* active buffer again, an add has returned the first ref past the reserved
\* elements of buffer 0.
C29_Witness ==
    /\ ret.op = "add"
    /\ ret.isNew
    /\ ret.ref = << 0, ArraySize >>
    /\ compactionCount = 2
    /\ dictHoldList # {}

(* ------------------------------------------------------------------ *)
(* keygen and existing key files.                                       *)
(* ------------------------------------------------------------------ *)

\* C30: keygen does not overwrite key material unless told to.  Run with
\* both output files named: when one of them exists and
\* --overwrite-existing is not given, the exit code is 1, stderr names an
\* output file that exists, and every file is as it was, so no key has been
\* written; with --overwrite-existing the exit code is 0 and both files
\* hold the two parts of a key pair that did not exist before.
C30_KeygenKeepsExistingKeys ==
    [][\A args \in KeygenArgs :
          (Keygen(args) /\ args.private # NoArg /\ args.public # NoArg)
              => /\ (/\ ~args.overwrite
                     /\ \E f \in {args.private, args.public} :
                           tool.files[f] # Absent)
                       => /\ tool'.exitCode = 1
                          /\ \E f \in {args.private, args.public} :
                                /\ tool.files[f] # Absent
                                /\ tool'.stdErr = existsMessage(f)
                          /\ tool'.files = tool.files
                 /\ args.overwrite
                       => /\ tool'.exitCode = 0
                          /\ tool'.stdErr = NoMessage
                          /\ tool'.files[args.private].part = "private"
                          /\ tool'.files[args.public].part = "public"
                          /\ tool'.files[args.private].pair
                                = tool'.files[args.public].pair
                          /\ \A f \in KeyFiles :
                                tool.files[f].pair
                                   # tool'.files[args.private].pair
                          /\ \A f \in KeyFiles \ {args.private, args.public} :
                                tool'.files[f] = tool.files[f]
      ]_vars

\* A run without --overwrite-existing has failed on the public key file,
\* which exists, while the private key file does not: neither was written.
C30_Witness ==
    /\ tool.state = "ran"
    /\ tool.args = [private |-> "priv.txt", public |-> "pub.txt",
                    overwrite |-> FALSE]
    /\ tool.exitCode = 1
    /\ tool.stdErr = existsMessage("pub.txt")
    /\ tool.files["priv.txt"] = Absent
    /\ tool.files["pub.txt"] = Existing

\* The elements of a collection at the indexes of a list, in ascending
\* index order.
elementsAt(collection, matching) ==
    LET listed == {matching[i] : i \in 1..Len(matching)}
        RECURSIVE from(_)
        from(id) ==
            IF id >= Len(collection) THEN << >>
            ELSE IF id \in listed THEN << collection[id + 1] >> \o from(id + 1)
            ELSE from(id + 1)
    IN  from(0)

\* C31: SlimeFiller with a matching-elements list, applied to an array, a
\* weighted set or a map, emits exactly the elements at the listed indexes
\* in ascending index order, and emits nothing (null) when the list is
\* empty or contains an index outside the collection.
C31_FilteredInsert ==
    tool.state = "filled" =>
        LET outside == \E i \in 1..Len(tool.matching) :
                          tool.matching[i] >= Len(tool.collection)
        IN  IF tool.matching = << >> \/ outside
            THEN tool.slime = SlimeNull
            ELSE /\ tool.slime.type = "array"
                 /\ tool.slime.elements =
                       elementsAt(tool.collection, tool.matching)
                 /\ Len(tool.slime.elements) = Len(tool.matching)

\* A weighted set of three elements filtered by the list {0, 2} gave
\* [{"item":"foo","weight":2},{"item":"baz","weight":6}].
C31_Witness ==
    /\ tool.state = "filled"
    /\ tool.kind = "weighted_set"
    /\ Len(tool.collection) = 3
    /\ tool.matching = << 0, 2 >>
    /\ tool.slime = slimeArray(<< [item |-> "foo", weight |-> 2],
                                  [item |-> "baz", weight |-> 6] >>)

\* Everything on a hold list of the store or of the dictionary.
heldItems ==
    elemHoldList \cup bufferHoldList \cup dictHoldList

heldWith(generation) ==
    \E h \in heldItems : h.gen = generation

\* No registered reader took its guard at or before the generation.
readersGoneUpTo(generation) ==
    \A r \in Readers : readers[r].registered => readers[r].gen > generation

\* C32 as stated: reclamation liveness.  Every retired resource is
\* eventually freed; once it has been tagged by transferHoldLists and every
\* reader registered at or before its generation has deregistered, a
\* subsequent trimHoldLists with the handler's first used generation frees
\* it.
C32_TrimFreesOnceReadersGone ==
    /\ [][TrimHoldLists(firstUsedGeneration) =>
             \A h \in heldItems :
                (h.gen # NoGen /\ readersGoneUpTo(h.gen)) => h \notin heldItems']_vars
    /\ heldWith(NoGen) ~> ~heldWith(NoGen)
    /\ \A g \in 0..(MaxGen - 1) : heldWith(g) ~> ~heldWith(g)

\* C32: reclamation liveness.  A trimHoldLists with the handler's first
\* used generation frees a tagged resource once that generation has moved
\* past the resource's tag, and no resource before.  With a writer that
\* keeps calling transferHoldLists and trimHoldLists, a generation handler
\* that keeps advancing, and readers that let go of their guards, every
\* retired resource is eventually tagged, and every resource tagged with a
\* generation the handler can still move past is eventually freed.
C32_ReclamationLiveness ==
    /\ [][TrimHoldLists(firstUsedGeneration) =>
             \A h \in heldItems :
                (h.gen # NoGen /\ h.gen < firstUsedGeneration)
                   <=> h \notin heldItems']_vars
    /\ heldWith(NoGen) ~> ~heldWith(NoGen)
    /\ \A g \in 0..(MaxGen - 1) : heldWith(g) ~> ~heldWith(g)

\* An entry that was put on hold has been freed by a trim (it is counted
\* dead in its buffer) after the generation handler moved on, and nothing
\* is left on hold.
C32_Witness ==
    /\ heldItems = {}
    /\ firstUsedGeneration = 1
    /\ \E b \in BufferIds :
          /\ states[b].state = "ACTIVE"
          /\ states[b].deadElems >= getReservedElements(b) + EntrySize

\* C33: deserialize0 terminates on every input buffer.  Each of its two
\* loops ends after finitely many record parses with either left == 0 or a
\* negative parse result, including when a record parse reports a size of
\* 0 or a size larger than the bytes left.
C33_Deserialize0Terminates ==
    /\ (load.state = "first") ~> (load.state # "first")
    /\ (load.state = "second") ~> (load.state # "second")
    /\ [](load.state \notin {"overrun", "crashed"})

\* The items of a hold list that no transferHoldLists has tagged yet.
untagged(holdList) ==
    {h \in holdList : h.gen = NoGen}

\* Every untagged item of the list is on the next list tagged with the
\* generation, every other item as it is, and nothing else.
taggedWith(holdList, holdListAfter, generation) ==
    holdListAfter = (holdList \ untagged(holdList))
        \cup {[h EXCEPT !.gen = generation] : h \in untagged(holdList)}

\* C34: a resource put on hold after the most recent transferHoldLists call
\* carries no generation yet and is never freed by trimHoldLists, whatever
\* firstUsed is passed; it becomes eligible for freeing only after a later
\* transferHoldLists(generation) has tagged it, and the dictionary and the
\* data store are always tagged with the same generation by one
\* transferHoldLists call.
C34_UntaggedNeverTrimmed ==
    /\ [][/\ \A h \in elemHoldList' \ elemHoldList :
                h.gen = NoGen \/ TransferHoldLists(currentGeneration)
          /\ \A h \in bufferHoldList' \ bufferHoldList :
                h.gen = NoGen \/ TransferHoldLists(currentGeneration)
          /\ \A h \in dictHoldList' \ dictHoldList :
                h.gen = NoGen \/ TransferHoldLists(currentGeneration)]_vars
    /\ [][\A g \in Generations :
             TrimHoldLists(g) =>
                /\ untagged(elemHoldList) \subseteq elemHoldList'
                /\ untagged(bufferHoldList) \subseteq bufferHoldList'
                /\ untagged(dictHoldList) \subseteq dictHoldList'
                /\ \A h \in untagged(elemHoldList) :
                      h.ref \in DOMAIN entries' /\ entries'[h.ref] = entries[h.ref]
                /\ \A h \in untagged(bufferHoldList) :
                      h.kind = "buffer" =>
                         states'[h.bufferId].state = states[h.bufferId].state]_vars
    /\ [][TransferHoldLists(currentGeneration) =>
             /\ taggedWith(elemHoldList, elemHoldList', currentGeneration)
             /\ taggedWith(bufferHoldList, bufferHoldList', currentGeneration)
             /\ taggedWith(dictHoldList, dictHoldList', currentGeneration)]_vars

\* A trim called with a generation past every tag has freed an entry, and
\* an entry and a dictionary node put on hold since the last transfer are
\* still there, untagged.
C34_Witness ==
    /\ \E b \in BufferIds : states[b].deadElems > getReservedElements(b)
    /\ \A h \in elemHoldList \cup dictHoldList : h.gen = NoGen
    /\ \E h \in elemHoldList : h.ref \in DOMAIN entries
    /\ dictHoldList # {}
    /\ currentGeneration = 0

\* usedElems - _deadElems in a calcArraysToAlloc call on the type's fields
\* does not go below zero.
noUnderflow(t, st) ==
    t.deadElems <= typeUsedElems(t, st)

\* C35: the unsigned subtraction usedElems - deadElems in calcArraysToAlloc
\* never underflows.  At every call reachable through construction, reset,
\* preCompact or fallbackResize, the dead-element count last recorded by
\* setSizeNeededAndDead is at most the used-element count (active plus
\* last-used elements) seen by the call.  Construction and reset record a
\* dead count of 0.
C35_NoUnderflow ==
    [][/\ (PreCompact(EntrySize) /\ getBufferIndex("FREE") # NumBuffers) =>
             noUnderflow(setSizeNeededAndDead(type, EntrySize,
                                              states[activeBufferId].deadElems),
                         states)
       /\ FallbackResize(EntrySize) =>
             noUnderflow(setSizeNeededAndDead(type, EntrySize,
                                              getReservedElements(activeBufferId)),
                         states)
       /\ Reset(EntrySize) => type'.deadElems = 0]_vars
    /\ type.deadElems = 0

\* preCompact has sized the new buffer from a dead count that holds a freed
\* entry besides the reserved elements, and from the used elements of the
\* buffer it compacts.
C35_Witness ==
    /\ ret = [op |-> "preCompact", result |-> "true"]
    /\ type.deadElems >= ArraySize + EntrySize
    /\ type.activeUsedElems >= type.deadElems + EntrySize

\* C36: if a record parse fails during the first (sizing) pass of
\* deserialize0, the store is left untouched: reset is not called, and the
\* existing entries, buffers, hold lists, dictionary and the caller's idx
\* vector are exactly as before the call.
C36_FirstPassFailureLeavesStore ==
    [][\A src \in Sources, bad \in 1..NumValues, err \in ParseErrors :
          Deserialize(src, bad, 1, err) =>
             /\ UNCHANGED << states, activeBufferId, entries, type >>
             /\ UNCHANGED << elemHoldList, bufferHoldList, dictHoldList >>
             /\ UNCHANGED << dict, toHoldBuffers >>
             /\ ~load'.didReset
             /\ load'.idx = << >>
             /\ load'.calls2 = 0
             /\ ret'.result = err]_vars

\* The parse of the second record failed in the first pass, and the store
\* still has the entry, the dictionary key and the held items it had.
C36_Witness ==
    /\ load.state = "failed"
    /\ ~load.didReset
    /\ load.calls1 = 2
    /\ dict # {}
    /\ elemHoldList # {}
    /\ dictHoldList # {}

\* C37: when preCompact returns false it changes nothing.  All buffer
\* states, the active buffer id, the buffer type's size-needed and
\* dead-element accounting, and the pending to-hold buffer list are as
\* before the call.
C37_PreCompactFalseChangesNothing ==
    [][\A bytesNeeded \in SizesNeeded :
          (PreCompact(bytesNeeded) /\ ret'.result = "false") =>
             /\ UNCHANGED << states, activeBufferId, type, toHoldBuffers >>
             /\ UNCHANGED << entries, elemHoldList, bufferHoldList, dict,
                             dictHoldList, phase, compactionCount >>]_vars

\* preCompact has returned false: no buffer is FREE, the buffer compacted
\* before is still on hold, and the list of the buffers to hold is the one
\* of that compaction.
C37_Witness ==
    /\ ret = [op |-> "preCompact", result |-> "false"]
    /\ \A b \in BufferIds : states[b].state # "FREE"
    /\ \E b \in BufferIds : states[b].state = "HOLD"
    /\ toHoldBuffers # << >>

\* The entries of the buffers under compaction that are referenced.
liveEntries ==
    {r \in DOMAIN entries :
        r[1] \in Range(toHoldBuffers) /\ entries[r].refCount > 0}

\* C38: the old-to-new mapping produced by a compaction is total and
\* injective on the live entries of the compacted buffers.  Every live
\* entry has exactly one new ref, no two old refs map to the same new ref,
\* every new ref lies outside the compacted buffers, and get(newRef) equals
\* the value that was stored at oldRef.
C38_RelocationMapInjective ==
    [][Relocate =>
          /\ DOMAIN old2New' = liveEntries
          /\ \A a, b \in liveEntries :
                a # b => old2New'[a] # old2New'[b]
          /\ \A r \in liveEntries :
                /\ old2New'[r][1] \notin Range(toHoldBuffers)
                /\ old2New'[r] # NullRef
                /\ old2New'[r] \notin DOMAIN entries
                /\ old2New'[r] \in DOMAIN entries'
                /\ entries'[old2New'[r]].value = get(r)
                /\ entries'[r] = entries[r]]_vars

\* A compaction has given two live entries two new refs in the active
\* buffer, and each new ref leads to the value of its old ref.
C38_Witness ==
    /\ phase = "relocated"
    /\ Cardinality(DOMAIN old2New) = 2
    /\ Cardinality({old2New[r] : r \in DOMAIN old2New}) = 2
    /\ \A r \in DOMAIN old2New :
          /\ old2New[r][1] = activeBufferId
          /\ get(old2New[r]) = get(r)

RECURSIVE recordOffsets(_, _)
\* The offsets at which the records of an input start, from offset p on,
\* each record as long as its parse reports.
recordOffsets(input, p) ==
    IF p >= Len(input) \/ input[p + 1] <= 0 THEN << >>
    ELSE << p >> \o recordOffsets(input, p + input[p + 1])

\* deserialize0 has returned a size that is not negative.
succeeded ==
    load.state = "returned" /\ load.result >= 0

\* C39: on success deserialize0 consumes the whole input.  It returns
\* exactly `available`, the store has been reset and sized from the first
\* pass before any entry is stored, and idx has received exactly one Index
\* per parsed record, appended in input order.
C39_SuccessConsumesInput ==
    /\ [](succeeded =>
            LET records == recordOffsets(load.input, 0)
            IN  /\ load.result = load.available
                /\ load.left = 0
                /\ load.didReset
                /\ type.minSizeNeeded = ArraySize + Len(records) * EntrySize
                /\ states[0].usedElems <= states[0].allocElems
                /\ Len(load.idx) = Len(records)
                /\ DOMAIN entries = Range(load.idx)
                /\ \A i \in 1..Len(records) :
                      /\ get(load.idx[i]) = valueAt(records[i])
                      /\ load.idx[i] =
                            << 0, getReservedElements(0) + (i - 1) * EntrySize >>)
    /\ [][/\ (load.state # "none" /\ entries' # entries /\ entries' # << >>)
                => load.didReset
          /\ (load.state = "second" /\ load'.state = "second")
                => /\ Len(load'.idx) = Len(load.idx) + 1
                   /\ SubSeq(load'.idx, 1, Len(load.idx)) = load.idx]_vars

\* deserialize0 has returned 3 for an input of 3 bytes that holds a record
\* of one byte and a record of two: the store, reset to the size of two
\* entries, holds them at the two refs of idx.
C39_Witness ==
    /\ succeeded
    /\ load.input = << 1, 2, 0 >>
    /\ load.result = 3
    /\ Len(load.idx) = 2
    /\ get(load.idx[1]) = 1
    /\ get(load.idx[2]) = 2

\* What the last call of FindApplicationPackage was given and found on disk.
below(elements) ==
    Join(tool.zipOrDir, elements) \in tool.exists

endsInZip ==
    tool.zipOrDir[Len(tool.zipOrDir)] \in {"app.zip"}

packaged ==
    below(<< "pom.xml" >>) /\ below(<< "target", "application.zip" >>)

needsPackaging ==
    /\ below(<< "pom.xml" >>)
    /\ ~below(<< "target", "application.zip" >>)
    /\ tool.requirePackaging

inSource ==
    below(<< "src", "main", "application" >>)

isPackage(path, testElements) ==
    /\ tool.result.err = NoError
    /\ tool.result.package.Path = path
    /\ tool.result.package.TestPath =
          IF below(testElements) THEN Join(tool.zipOrDir, testElements)
          ELSE EmptyPath

\* C40: FindApplicationPackage(zipOrDir, requirePackaging) resolves by a
\* fixed precedence over what exists on disk.  A path ending in .zip is
\* returned as is; else, with pom.xml present, target/application.zip is
\* returned (with target/application-test.zip as TestPath when present) and,
\* if that zip is missing and requirePackaging is true, an error is
\* returned; else src/main/application is returned (with
\* src/test/application as TestPath when present); else the directory
\* itself when it contains services.xml; otherwise an error, and every error
\* comes with an empty ApplicationPackage.
C40_FindApplicationPackagePrecedence ==
    tool.state = "returned" =>
        /\ endsInZip =>
              /\ tool.result.err = NoError
              /\ tool.result.package = [Path |-> tool.zipOrDir,
                                        TestPath |-> EmptyPath]
        /\ (~endsInZip /\ packaged) =>
              isPackage(Join(tool.zipOrDir, << "target", "application.zip" >>),
                        << "target", "application-test.zip" >>)
        /\ (~endsInZip /\ needsPackaging) => tool.result.err # NoError
        /\ (~endsInZip /\ ~packaged /\ ~needsPackaging /\ inSource) =>
              isPackage(Join(tool.zipOrDir, << "src", "main", "application" >>),
                        << "src", "test", "application" >>)
        /\ (~endsInZip /\ ~packaged /\ ~needsPackaging /\ ~inSource
                /\ below(<< "services.xml" >>)) =>
              /\ tool.result.err = NoError
              /\ tool.result.package = [Path |-> tool.zipOrDir,
                                        TestPath |-> EmptyPath]
        /\ (~endsInZip /\ ~packaged /\ ~needsPackaging /\ ~inSource
                /\ ~below(<< "services.xml" >>)) =>
              tool.result.err # NoError
        /\ tool.result.err # NoError => tool.result.package = EmptyPackage

\* A directory with pom.xml but no target/application.zip, searched
\* without requirePackaging: the call went on to src/main/application and
\* returned it with src/test/application as its TestPath.
C40_Witness ==
    /\ tool.state = "returned"
    /\ tool.zipOrDir = << "app" >>
    /\ ~tool.requirePackaging
    /\ below(<< "pom.xml" >>)
    /\ ~below(<< "target", "application.zip" >>)
    /\ below(<< "services.xml" >>)
    /\ tool.result = found(<< "app", "src", "main", "application" >>,
                           << "app", "src", "test", "application" >>)

====
